---- MODULE Spec2Model ----
\* Timer engine of the multi-timer application (TimerService with alert
\* configuration and acknowledgement), its localStorage-backed store and the
\* calls it makes to the audio service and to its observers.
\*
\* Time is the wall clock in milliseconds (Date.now()).  An operation runs to
\* completion at one clock reading.  Every step records the operation that ran
\* (lastOp) and the ordered list of calls it made to the store, the audio
\* service and the observers (effects).
EXTENDS Integers, Sequences, FiniteSets, TLC

VARIABLES
    timers,          \* TimerService.timers: id -> timer state
    intervals,       \* TimerService.intervals: ids owning a setInterval handle
    finishedTimers,  \* TimerService.finishedTimers: the already-fired markers
    nextId,          \* TimerService.nextId
    storedTimers,    \* localStorage["multi-timer-timers"]: id -> timer state
    storedRuntimes,  \* localStorage["multi-timer-runtimes"]: id -> runtime
    clock,           \* Date.now()
    lastOp,          \* the operation of the last step and how it returned
    effects,         \* calls made by the last step, in order
    created,         \* number of timers created so far
    hist,            \* per timer: history of its current run
    observers,       \* TimerService.observers, in insertion order
    audio,           \* AudioService and the speech synthesis of the page
    dashboards,      \* DashboardService and its part of the store
    ref              \* the engine of the same session had every store write
                     \* succeeded, and the number of steps with a failed write

vars == <<timers, intervals, finishedTimers, nextId, storedTimers,
          storedRuntimes, clock, lastOp, effects, created, hist, ref,
          observers, audio, dashboards>>

----------------------------------------------------------------------------
\* Bounds of the model

MaxCreates == 1
MaxTotal == 2
MaxSeconds == 2
MaxPlays == 2
MaxFailedSteps == 1
MaxWritesBeforeCrash == 3

\* Timers created in a behaviour with two timers, and the total of its
\* countdown timers.
MaxTimers == 2

TwoTimersTotal == 1

\* Alerts begun in one page session, repetitions of one alert, live
\* dashboards.
MaxAlerts == 2
MaxRepeats == 2
MaxDashboards == 2

\* Milliseconds per second: the divisor of the projection.
MsPerSecond == 1000


DEFAULT_ALERT_CONFIG ==
    [enabled |-> TRUE, repeatCount |-> "infinite", waitBetweenRepeat |-> 10,
     utteranceTemplate |-> "{timer name} has completed"]

CustomAlertConfig ==
    [enabled |-> FALSE, repeatCount |-> "infinite", waitBetweenRepeat |-> 5,
     utteranceTemplate |-> "{timer name} is done"]

\* The (label, alertConfig?) arguments createCountdownTimer is called with:
\* one call passes an alert configuration, the other leaves it out.
CountdownArgs ==
    {[label |-> "bake", given |-> TRUE, config |-> CustomAlertConfig],
     [label |-> "tea", given |-> FALSE]}

\* The totalSeconds createCountdownTimer is called with.
TotalSecondsInputs == -1 .. MaxTotal

\* The labels createCountupTimer is called with.
CountupLabels == {"exercise"}

\* A maximum that returns its second argument.
MaxIsSecond(a, b) == b

Max(a, b) == IF a >= b THEN a ELSE b

----------------------------------------------------------------------------
\* Store (StorageService over localStorage).  The engine state threaded
\* through an operation is a record E with the fields timers, intervals,
\* finishedTimers, storedTimers, storedRuntimes and effects, and the field
\* failing: the write operations whose localStorage.setItem throws during
\* the operation.  The store catches the exception: the call returns and the
\* write is lost.  The field crash tells whether the process stops during
\* the operation, and after how many more store writes: once it has
\* stopped, nothing more is written.

Put(f, k, v) == [x \in DOMAIN f \cup {k} |-> IF x = k THEN v ELSE f[x]]

Remove(f, k) == [x \in DOMAIN f \ {k} |-> f[x]]

Log(E, e) == [E EXCEPT !.effects = Append(@, e)]

\* The write operations of the store.
StoreWrites == {"saveTimers", "saveTimerRuntime", "deleteTimerRuntime"}

\* The process runs the operation to its end.
NoCrash == [armed |-> FALSE, left |-> 0]

\* The process has stopped.
Stopped(E) == E.crash.armed /\ E.crash.left = 0

\* One more store write has reached localStorage.
Wrote(E) == IF E.crash.armed THEN [E EXCEPT !.crash.left = @ - 1] ELSE E

\* The catch block of a write: the exception is logged and the call returns.
consoleError(E, message) ==
    Log(E, [kind |-> "console.error", message |-> message])

\* A saveTimers whose failed write empties the stored collection.
saveTimersFailureWipes(E, ts) ==
    IF "saveTimers" \in E.failing
    THEN consoleError(Log([E EXCEPT !.storedTimers = [x \in {} |-> 0]],
                          [kind |-> "saveTimers", timers |-> ts]),
                      "Failed to save timers:")
    ELSE Log([E EXCEPT !.storedTimers = ts],
             [kind |-> "saveTimers", timers |-> ts])

saveTimers(E, ts) ==
    IF Stopped(E) THEN E
    ELSE IF "saveTimers" \in E.failing
    THEN consoleError(Log(E, [kind |-> "saveTimers", timers |-> ts]),
                      "Failed to save timers:")
    ELSE Wrote(Log([E EXCEPT !.storedTimers = ts],
                   [kind |-> "saveTimers", timers |-> ts]))

saveTimerRuntime(E, rt) ==
    IF Stopped(E) THEN E
    ELSE IF "saveTimerRuntime" \in E.failing
    THEN consoleError(Log(E, [kind |-> "saveTimerRuntime", runtime |-> rt]),
                      "Failed to save timer runtime:")
    ELSE Wrote(Log([E EXCEPT !.storedRuntimes = Put(@, rt.timerId, rt)],
                   [kind |-> "saveTimerRuntime", runtime |-> rt]))

deleteTimerRuntime(E, id) ==
    IF Stopped(E) THEN E
    ELSE IF "deleteTimerRuntime" \in E.failing
    THEN consoleError(Log(E, [kind |-> "deleteTimerRuntime", timerId |-> id]),
                      "Failed to delete timer runtime:")
    ELSE Wrote(Log([E EXCEPT !.storedRuntimes = Remove(@, id)],
                   [kind |-> "deleteTimerRuntime", timerId |-> id]))

\* getTimerRuntime returns null for a missing record; every caller treats
\* null and startedAt == 0 alike.
HasRuntime(rts, id) == id \in DOMAIN rts

ActiveRuntime(rts, id) == HasRuntime(rts, id) /\ rts[id].startedAt > 0

----------------------------------------------------------------------------
\* Audio service and observers, as seen from the engine

playAlert(E, id, timerName, config) ==
    Log(E, [kind |-> "playAlert", timerId |-> id, timerName |-> timerName,
            config |-> config])

cancelAlert(E) == Log(E, [kind |-> "cancelAlert"])

\* A subscribe that adds the observer even when it is already subscribed.
subscribeAgain(obs, o) == Append(obs, o)

\* subscribe: Set.add keeps an observer that is already in the set where it
\* is and puts a new one last.
subscribe(obs, o) ==
    IF \E i \in DOMAIN obs : obs[i] = o THEN obs ELSE Append(obs, o)

\* unsubscribe: Set.delete.
unsubscribe(obs, o) == SelectSeq(obs, LAMBDA x : x # o)

\* notifyObservers: the callback of every observer, in insertion order.
notifyObservers(E, method, data) ==
    [E EXCEPT !.effects =
        Append(@, [kind |-> "notify", method |-> method, data |-> data])
        \o [i \in DOMAIN E.observers |->
               [kind |-> "deliver", observer |-> E.observers[i],
                method |-> method, data |-> data]]]

persistTimers(E) == saveTimers(E, E.timers)

----------------------------------------------------------------------------
\* Time projection

elapsedSeconds(rt, now) == (now - rt.startedAt) \div MsPerSecond

baseRemaining(rt, t) ==
    IF "baseRemainingSeconds" \in DOMAIN rt THEN rt.baseRemainingSeconds
    ELSE t.remainingSeconds

baseElapsed(rt, t) ==
    IF "baseElapsedSeconds" \in DOMAIN rt THEN rt.baseElapsedSeconds
    ELSE t.elapsedSeconds

\* getComputedTimer for an id present in ts.
getComputedTimer(ts, rts, id, now) ==
    LET t == ts[id] IN
    IF ~ActiveRuntime(rts, id) THEN t
    ELSE IF t.type = "countdown"
         THEN [t EXCEPT !.remainingSeconds =
                   Max(0, baseRemaining(rts[id], t) - elapsedSeconds(rts[id], now))]
         ELSE [t EXCEPT !.elapsedSeconds =
                   baseElapsed(rts[id], t) + elapsedSeconds(rts[id], now)]

\* The value a timer displays: remaining for countdown, elapsed for count-up.
Value(t) == IF t.type = "countdown" THEN t.remainingSeconds ELSE t.elapsedSeconds

\* getAllTimers: the projection of every timer of the map.
getAllTimers(ts, rts, now) ==
    {getComputedTimer(ts, rts, id, now) : id \in DOMAIN ts}

\* getTimer(id) in the current state, for an existing id.
getTimer(id) == getComputedTimer(timers, storedRuntimes, id, clock)

\* The store read of getComputedTimer.
getTimerRuntime(E, id) == Log(E, [kind |-> "getTimerRuntime", id |-> id])

\* A getComputedTimer that keeps the projection it computed.
readComputedTimerKeepsIt(E, id, now) ==
    IF id \notin DOMAIN E.timers THEN E
    ELSE LET E1 == getTimerRuntime(E, id)
             computed == getComputedTimer(E.timers, E.storedRuntimes, id, now)
         IN  persistTimers([E1 EXCEPT !.timers = Put(@, id, computed)])

\* What a call of getComputedTimer(id) does to the engine and the store: it
\* reads the runtime record of a timer that exists and assigns nothing.
readComputedTimer(E, id, now) ==
    IF id \notin DOMAIN E.timers THEN E ELSE getTimerRuntime(E, id)

\* A getComputedTimer that returns the stored timer.
computedOrUndefinedStored(ts, rts, id, now) ==
    IF id \in DOMAIN ts THEN ts[id] ELSE "undefined"

\* The value getComputedTimer(id) returns, for any id.
computedOrUndefined(ts, rts, id, now) ==
    IF id \in DOMAIN ts THEN getComputedTimer(ts, rts, id, now) ELSE "undefined"

----------------------------------------------------------------------------
\* Engine operations.  Each takes the engine state E at the call and returns
\* the engine state at the return, with the calls it made appended to
\* E.effects.

startInterval(E, id) == [E EXCEPT !.intervals = @ \cup {id}]

\* A clearInterval that stops every schedule.
clearEveryInterval(E, id) == [E EXCEPT !.intervals = {}]

clearInterval(E, id) == [E EXCEPT !.intervals = @ \ {id}]

\* A pause that stops the timer without freezing the projected value.
pausedTimerKeepsStored(timer, computed) == [timer EXCEPT !.isRunning = FALSE]

\* pauseTimer: the stored timer with the projected value frozen into it.
pausedTimer(timer, computed) ==
    IF timer.type = "countdown"
    THEN [timer EXCEPT !.isRunning = FALSE,
                       !.remainingSeconds = computed.remainingSeconds]
    ELSE [timer EXCEPT !.isRunning = FALSE,
                       !.elapsedSeconds = computed.elapsedSeconds]

\* A pauseTimer that leaves the interval of the timer in place.
pauseTimerKeepsInterval(E, id, now) ==
    LET timer    == E.timers[id]
        computed == getComputedTimer(E.timers, E.storedRuntimes, id, now)
        updated  == pausedTimer(timer, computed)
        E2       == [E EXCEPT !.timers = Put(@, id, updated)]
        E3       == saveTimerRuntime(E2, [timerId |-> id, startedAt |-> 0])
    IN  notifyObservers(persistTimers(E3), "onTimerUpdated", updated)

\* A pause that leaves the runtime record as it is.
pauseTimerKeepsRuntime(E, id, now) ==
    LET timer    == E.timers[id]
        E1       == clearInterval(E, id)
        computed == getComputedTimer(E1.timers, E1.storedRuntimes, id, now)
        updated  == pausedTimer(timer, computed)
        E2       == [E1 EXCEPT !.timers = Put(@, id, updated)]
    IN  notifyObservers(persistTimers(E2), "onTimerUpdated", updated)

\* pauseTimer(id) for an existing id.
pauseTimer(E, id, now) ==
    LET timer    == E.timers[id]
        E1       == clearInterval(E, id)
        computed == getComputedTimer(E1.timers, E1.storedRuntimes, id, now)
        updated  == pausedTimer(timer, computed)
        E2       == [E1 EXCEPT !.timers = Put(@, id, updated)]
        E3       == saveTimerRuntime(E2, [timerId |-> id, startedAt |-> 0])
    IN  notifyObservers(persistTimers(E3), "onTimerUpdated", updated)

\* A tick that marks the timer finished without pausing it.
tickTimerNoPause(E, id, now) ==
    IF id \notin DOMAIN E.timers THEN E
    ELSE
    LET cur == getComputedTimer(E.timers, E.storedRuntimes, id, now) IN
    IF cur.type = "countdown" /\ cur.remainingSeconds <= 0
                              /\ id \notin E.finishedTimers
    THEN LET E1       == [E EXCEPT !.finishedTimers = @ \cup {id}]
             E3       == playAlert(E1, id, cur.label, cur.alertConfig)
             latest   == E3.timers[id]
             finished == [latest EXCEPT !.remainingSeconds = 0,
                                        !.isFinished = TRUE]
             E4       == [E3 EXCEPT !.timers = Put(@, id, finished)]
         IN  notifyObservers(persistTimers(E4), "onTimerUpdated", finished)
    ELSE notifyObservers(E, "onTimerUpdated", cur)

\* A tick that also finishes a count-up timer once it shows a second.
tickTimerFinishesCountup(E, id, now) ==
    IF id \notin DOMAIN E.timers THEN E
    ELSE
    LET cur == getComputedTimer(E.timers, E.storedRuntimes, id, now) IN
    IF cur.type = "countup" /\ cur.elapsedSeconds >= 1
    THEN LET E2       == pauseTimer(E, id, now)
             E3       == playAlert(E2, id, cur.label, DEFAULT_ALERT_CONFIG)
             finished == [E3.timers[id] EXCEPT !.isFinished = TRUE]
             E4       == [E3 EXCEPT !.timers = Put(@, id, finished)]
         IN  notifyObservers(persistTimers(E4), "onTimerUpdated", finished)
    ELSE notifyObservers(E, "onTimerUpdated", cur)

\* tickTimer: the callback of the interval of timer id.
tickTimer(E, id, now) ==
    IF id \notin DOMAIN E.timers THEN E
    ELSE
    LET cur == getComputedTimer(E.timers, E.storedRuntimes, id, now) IN
    IF cur.type = "countdown" /\ cur.remainingSeconds <= 0
                              /\ id \notin E.finishedTimers
    THEN LET E1       == [E EXCEPT !.finishedTimers = @ \cup {id}]
             E2       == pauseTimer(E1, id, now)
             E3       == playAlert(E2, id, cur.label, cur.alertConfig)
             latest   == E3.timers[id]
             finished == [latest EXCEPT !.remainingSeconds = 0,
                                        !.isFinished = TRUE]
             E4       == [E3 EXCEPT !.timers = Put(@, id, finished)]
         IN  notifyObservers(persistTimers(E4), "onTimerUpdated", finished)
    ELSE notifyObservers(E, "onTimerUpdated", cur)

\* A startTimer without the early return.
startBlockedNever(t) == FALSE

\* startTimer returns at once for a finished, unacknowledged countdown timer.
startBlocked(t) ==
    t.type = "countdown" /\ t.isFinished /\ ~t.isAcknowledged

\* startTimer resets a finished, acknowledged countdown timer to its total.
startRestarts(t) ==
    t.type = "countdown" /\ t.isFinished /\ t.isAcknowledged

\* A reset that clears the flags but keeps remainingSeconds.
resetTimerKeepsRemaining(t) ==
    [t EXCEPT !.isFinished = FALSE, !.isAcknowledged = FALSE]

\* resetTimer of startTimer and of resetCountdownTimer.
resetTimer(t) ==
    [t EXCEPT !.remainingSeconds = t.totalSeconds,
              !.isFinished = FALSE,
              !.isAcknowledged = FALSE]

\* The runtime record startTimer writes for an unfinished timer.
startRuntime(timer, id, now) ==
    IF timer.type = "countdown"
    THEN [timerId |-> id, startedAt |-> now,
          baseRemainingSeconds |-> timer.remainingSeconds]
    ELSE [timerId |-> id, startedAt |-> now,
          baseElapsedSeconds |-> timer.elapsedSeconds]

\* startTimer(id) for an existing id.
startTimer(E, id, now) ==
    LET timer == E.timers[id] IN
    IF startBlocked(timer) THEN E
    ELSE IF startRestarts(timer)
    THEN LET reset   == resetTimer(timer)
             E1      == [E EXCEPT !.timers = Put(@, id, reset),
                                  !.finishedTimers = @ \ {id}]
             updated == [reset EXCEPT !.isRunning = TRUE]
             E2      == [E1 EXCEPT !.timers = Put(@, id, updated)]
             E3      == saveTimerRuntime(E2,
                            [timerId |-> id, startedAt |-> now,
                             baseRemainingSeconds |-> reset.totalSeconds])
             E4      == startInterval(E3, id)
         IN  notifyObservers(persistTimers(E4), "onTimerUpdated", updated)
    ELSE LET updated == [timer EXCEPT !.isRunning = TRUE]
             E1      == [E EXCEPT !.timers = Put(@, id, updated)]
             E2      == saveTimerRuntime(E1, startRuntime(timer, id, now))
             E3      == startInterval(E2, id)
         IN  notifyObservers(persistTimers(E3), "onTimerUpdated", updated)

\* resetCountdownTimer(id) for an existing countdown timer.  The reset state
\* is built from the timer as read at entry, before the pause.
resetCountdownTimer(E, id, now) ==
    LET timer == E.timers[id]
        E1    == IF timer.isRunning THEN pauseTimer(E, id, now) ELSE E
        reset == resetTimer(timer)
        E2    == [E1 EXCEPT !.timers = Put(@, id, reset),
                            !.finishedTimers = @ \ {id}]
        E3    == deleteTimerRuntime(E2, id)
    IN  notifyObservers(persistTimers(E3), "onTimerUpdated", reset)

\* resetCountupTimer(id) for an existing count-up timer.
resetCountupTimer(E, id, now) ==
    LET timer == E.timers[id]
        E1    == IF timer.isRunning THEN pauseTimer(E, id, now) ELSE E
        reset == [timer EXCEPT !.elapsedSeconds = 0]
        E2    == [E1 EXCEPT !.timers = Put(@, id, reset)]
        E3    == deleteTimerRuntime(E2, id)
    IN  notifyObservers(persistTimers(E3), "onTimerUpdated", reset)

\* A countdown test that also rejects timers that are not finished.
isFinishedCountdownTimer(ts, id) ==
    id \in DOMAIN ts /\ ts[id].type = "countdown" /\ ts[id].isFinished

\* The existence and type test of the countdown-only operations.
isCountdownTimer(ts, id) == id \in DOMAIN ts /\ ts[id].type = "countdown"

isCountupTimer(ts, id) == id \in DOMAIN ts /\ ts[id].type = "countup"

\* acknowledgedTimer of acknowledgeTimer, stoppedTimer of stopAlert.
acknowledgedTimer(t) == [t EXCEPT !.isAcknowledged = TRUE]

\* A stoppedTimer that also takes the finished state back.
stoppedTimerUnfinished(t) ==
    [t EXCEPT !.isAcknowledged = TRUE, !.isFinished = FALSE]

stoppedTimer(t) == [t EXCEPT !.isAcknowledged = TRUE]

\* An acknowledgeTimer that leaves the alert playing.
acknowledgeTimerNoCancel(E, id) ==
    LET acked == acknowledgedTimer(E.timers[id])
        E1    == [E EXCEPT !.timers = Put(@, id, acked)]
    IN  notifyObservers(persistTimers(E1), "onTimerUpdated", acked)

\* An acknowledgeTimer that notifies before it persists.
acknowledgeTimerNotifiesFirst(E, id) ==
    LET E1    == cancelAlert(E)
        acked == acknowledgedTimer(E.timers[id])
        E2    == [E1 EXCEPT !.timers = Put(@, id, acked)]
    IN  persistTimers(notifyObservers(E2, "onTimerUpdated", acked))

\* An acknowledgeTimer that cancels the alert after it has told the observers.
acknowledgeTimerCancelsLast(E, id) ==
    LET acked == acknowledgedTimer(E.timers[id])
        E2    == [E EXCEPT !.timers = Put(@, id, acked)]
    IN  cancelAlert(notifyObservers(persistTimers(E2), "onTimerUpdated", acked))

\* acknowledgeTimer(id) for an existing countdown timer.
acknowledgeTimer(E, id) ==
    LET E1    == cancelAlert(E)
        acked == acknowledgedTimer(E.timers[id])
        E2    == [E1 EXCEPT !.timers = Put(@, id, acked)]
    IN  notifyObservers(persistTimers(E2), "onTimerUpdated", acked)

\* stopAlert(id) for an existing countdown timer.
stopAlert(E, id) ==
    LET E1      == cancelAlert(E)
        stopped == stoppedTimer(E.timers[id])
        E2      == [E1 EXCEPT !.timers = Put(@, id, stopped)]
    IN  notifyObservers(persistTimers(E2), "onTimerUpdated", stopped)

\* A deleteTimer that leaves the runtime record in the store.
deleteTimerKeepsRuntime(E, id) ==
    IF id \notin DOMAIN E.timers THEN E
    ELSE
    LET E1 == IF E.timers[id].isRunning THEN clearInterval(E, id) ELSE E
        E2 == cancelAlert(E1)
        E3 == [E2 EXCEPT !.timers = Remove(@, id),
                         !.finishedTimers = @ \ {id}]
    IN  notifyObservers(persistTimers(E3), "onTimerDeleted", id)

\* A deleteTimer without the early return for an absent id.
deleteTimerNoEarlyReturn(E, id) ==
    LET E1 == clearInterval(E, id)
        E2 == cancelAlert(E1)
        E3 == [E2 EXCEPT !.timers = Remove(@, id),
                         !.finishedTimers = @ \ {id}]
        E4 == deleteTimerRuntime(E3, id)
    IN  notifyObservers(persistTimers(E4), "onTimerDeleted", id)

\* deleteTimer(id): returns at once when the id is absent.
deleteTimer(E, id) ==
    IF id \notin DOMAIN E.timers THEN E
    ELSE
    LET E1 == IF E.timers[id].isRunning THEN clearInterval(E, id) ELSE E
        E2 == cancelAlert(E1)
        E3 == [E2 EXCEPT !.timers = Remove(@, id),
                         !.finishedTimers = @ \ {id}]
        E4 == deleteTimerRuntime(E3, id)
    IN  notifyObservers(persistTimers(E4), "onTimerDeleted", id)

\* The timer createCountdownTimer builds.
newCountdownTimer(id, totalSeconds, arg) ==
    [id |-> id, label |-> arg.label, type |-> "countdown",
     totalSeconds |-> totalSeconds, remainingSeconds |-> totalSeconds,
     isRunning |-> FALSE, isFinished |-> FALSE, isAcknowledged |-> FALSE,
     alertConfig |-> IF arg.given THEN arg.config ELSE DEFAULT_ALERT_CONFIG]

\* The timer createCountupTimer builds.
newCountupTimer(id, label) ==
    [id |-> id, label |-> label, type |-> "countup", elapsedSeconds |-> 0,
     isRunning |-> FALSE, isFinished |-> FALSE]

\* A create that keeps the new timer in memory only.
addTimerWithoutPersist(E, timer) ==
    LET E1 == [E EXCEPT !.timers = Put(@, timer.id, timer)]
    IN  notifyObservers(E1, "onTimerCreated", timer)

\* The tail of both create operations.
addTimer(E, timer) ==
    LET E1 == [E EXCEPT !.timers = Put(@, timer.id, timer)]
    IN  notifyObservers(persistTimers(E1), "onTimerCreated", timer)

----------------------------------------------------------------------------
\* Construction: loadTimers, then resumeRunningTimers, over the store content.

EmptyMap == [x \in {} |-> 0]

MaxOf(S) == CHOOSE x \in S : \A y \in S : y <= x

MinOf(S) == CHOOSE x \in S : \A y \in S : x <= y

\* Countdown timers persisted without an alertConfig get the default one.
processedTimer(t) ==
    IF t.type = "countdown" /\ "alertConfig" \notin DOMAIN t
    THEN [x \in DOMAIN t \cup {"alertConfig", "isAcknowledged"} |->
             IF x = "alertConfig" THEN DEFAULT_ALERT_CONFIG
             ELSE IF x = "isAcknowledged" THEN FALSE
             ELSE t[x]]
    ELSE t

\* loadTimers: every stored timer enters the map stopped.
loadTimers(stored) ==
    [id \in DOMAIN stored |-> [processedTimer(stored[id]) EXCEPT !.isRunning = FALSE]]

\* A constructor that leaves nextId at Date.now().
loadedNextIdIsNow(stored, now) == now

\* nextId after the constructor: Date.now(), raised above every loaded id.
loadedNextId(stored, now) ==
    IF DOMAIN stored = {} THEN now ELSE Max(now, MaxOf(DOMAIN stored) + 1)

\* resumeRunningTimers detects a countdown timer that has already run out.
resumeDetectsFinish(E, id, now) ==
    LET cur == getComputedTimer(E.timers, E.storedRuntimes, id, now)
    IN  cur.type = "countdown" /\ cur.remainingSeconds <= 0

\* One iteration of the forEach of resumeRunningTimers.
resumeOne(E, id, now) ==
    IF ~ActiveRuntime(E.storedRuntimes, id) THEN E
    ELSE
    LET timer == processedTimer(E.storedTimers[id])
        E1    == [E EXCEPT !.timers = Put(@, id, [timer EXCEPT !.isRunning = TRUE])]
        E2    == startInterval(E1, id)
        cur   == getComputedTimer(E2.timers, E2.storedRuntimes, id, now)
    IN  IF resumeDetectsFinish(E2, id, now)
        THEN LET E3 == [E2 EXCEPT !.finishedTimers = @ \cup {id}]
             IN  IF ~cur.isAcknowledged
                 THEN playAlert(E3, id, cur.label, cur.alertConfig)
                 ELSE E3
        ELSE E2

RECURSIVE resumeLoop(_, _, _)
resumeLoop(E, ids, now) ==
    IF ids = {} THEN E
    ELSE LET id == MinOf(ids)
         IN  resumeLoop(resumeOne(E, id, now), ids \ {id}, now)

resumeRunningTimers(E, now) ==
    persistTimers(resumeLoop(E, DOMAIN E.storedTimers, now))

\* A constructor that ignores the stored runtime records.
constructForgetsRuntimes(stored, runtimes, now) ==
    resumeRunningTimers(
        [timers |-> loadTimers(stored), intervals |-> {}, finishedTimers |-> {},
         storedTimers |-> stored, storedRuntimes |-> EmptyMap, effects |-> <<>>,
         failing |-> {}, crash |-> NoCrash, observers |-> <<>>],
        now)

\* new TimerService(audioService, storageService) over the given store.
construct(stored, runtimes, now) ==
    resumeRunningTimers(
        [timers |-> loadTimers(stored), intervals |-> {}, finishedTimers |-> {},
         storedTimers |-> stored, storedRuntimes |-> runtimes, effects |-> <<>>,
         failing |-> {}, crash |-> NoCrash, observers |-> <<>>],
        now)

----------------------------------------------------------------------------
\* History of a timer's current run, kept beside the program state:
\*   s         clock at the last startTimer that started it (0: none)
\*   T         the value getTimer returned right after that startTimer
\*   p         clock at the first pauseTimer call after that start (0: none)
\*   restart   that startTimer restarted a finished, acknowledged timer
\*   plays     playAlert invocations for the timer since the run began
\*   seenZero  a tick or the resume detection has observed remaining == 0
\*             since the run began

FreshHist ==
    [s |-> 0, T |-> 0, p |-> 0, restart |-> FALSE, plays |-> 0, seenZero |-> FALSE]

PlaysIn(effs, id) ==
    Cardinality({i \in DOMAIN effs :
                    effs[i].kind = "playAlert" /\ effs[i].timerId = id})

AddPlays(n, effs, id) ==
    IF n + PlaysIn(effs, id) > MaxPlays THEN MaxPlays ELSE n + PlaysIn(effs, id)

----------------------------------------------------------------------------
\* AudioService over window.speechSynthesis.  The record A holds the fields
\* of the service and the state of the page's speech synthesis and timeout
\* table: isInitialized; speaking, the utterance being spoken, if any;
\* interrupted, the utterances a cancel() has cut short and whose closing
\* event the browser has not delivered yet; repeatTimeouts, the map of the
\* service from key to timeout handle; pending, the timeouts that have not
\* fired and have not been cleared; nextSeq, the number of alerts begun, by
\* which the utterances and repeats of one alert are told from another's;
\* cancelledBelow, the number of alerts begun when the engine last called
\* cancelAlert.

InitialAudio ==
    [isInitialized |-> FALSE, speaking |-> {}, interrupted |-> {},
     repeatTimeouts |-> [x \in {} |-> 0], pending |-> {}, nextSeq |-> 0,
     cancelledBelow |-> 0]

\* An alert configuration with a finite number of repetitions.  A finite
\* repeatCount is written as its numeral, so that it can stand where
\* "infinite" can.
TwiceAlertConfig ==
    [enabled |-> TRUE, repeatCount |-> "2", waitBetweenRepeat |-> 10,
     utteranceTemplate |-> "{timer name} has completed"]

\* A new timeout gets a handle no other timeout has.
FreshHandle(A) ==
    LET used == {h.handle : h \in A.pending}
                    \cup {A.repeatTimeouts[k] : k \in DOMAIN A.repeatTimeouts}
    IN  CHOOSE n \in 0 .. Cardinality(used) :
            /\ n \notin used
            /\ \A m \in 0 .. n - 1 : m \in used

\* window.speechSynthesis.cancel(): speaking ceases at once; the browser
\* delivers the closing event of the utterance later.
speechCancel(A) ==
    [A EXCEPT !.interrupted = @ \cup A.speaking, !.speaking = {}]

\* AudioService.cancelAlert.
audioCancelAlert(A) ==
    LET A1 == speechCancel(A)
        cleared == {A1.repeatTimeouts[k] : k \in DOMAIN A1.repeatTimeouts}
    IN  [A1 EXCEPT !.pending = {h \in @ : h.handle \notin cleared},
                   !.repeatTimeouts = [x \in {} |-> 0]]

\* AudioService.speakMessage: cancel(), then speak() of a new utterance
\* whose onend closure holds timerName, config and repetitionCount.
speakMessage(A, timerName, config, repetitionCount, seq) ==
    [speechCancel(A) EXCEPT
        !.speaking = {[timerName |-> timerName, config |-> config,
                       repetitionCount |-> repetitionCount, seq |-> seq]}]

\* repeatsRemaining of the onend handler, with 1 for Infinity.
repeatsRemaining(u) ==
    LET repeatCount == CASE u.config.repeatCount = "1" -> 1
                         [] u.config.repeatCount = "2" -> 2
    IN  IF u.config.repeatCount = "infinite" THEN 1
        ELSE repeatCount - u.repetitionCount - 1

\* utterance.onend of utterance u.
onend(A, u) ==
    IF repeatsRemaining(u) > 0
    THEN LET timeoutId == FreshHandle(A) IN
         [A EXCEPT
            !.pending = @ \cup {[handle |-> timeoutId, timerName |-> u.timerName,
                                 config |-> u.config,
                                 repetitionCount |-> u.repetitionCount + 1,
                                 seq |-> u.seq]},
            !.repeatTimeouts =
                Put(@, <<u.timerName, u.repetitionCount + 1>>, timeoutId)]
    ELSE A

\* A playAlert that does not wait for the first user interaction.
audioPlayAlertAtOnce(A, timerName, config) ==
    IF ~config.enabled THEN A
    ELSE [speakMessage(audioCancelAlert(A), timerName, config, 0, A.nextSeq)
            EXCEPT !.nextSeq = @ + 1]

\* Whether AudioService.playAlert goes on to speak.
playAlertAccepted(A, config) == config.enabled /\ A.isInitialized

\* AudioService.playAlert.
audioPlayAlert(A, timerName, config) ==
    IF ~playAlertAccepted(A, config) THEN A
    ELSE [speakMessage(audioCancelAlert(A), timerName, config, 0, A.nextSeq)
            EXCEPT !.nextSeq = @ + 1]

\* The playAlert calls of a TimerService constructor, in order.
RECURSIVE audioPlayAll(_, _, _)
audioPlayAll(A, calls, n) ==
    IF n = 0 THEN A
    ELSE audioPlayAlert(audioPlayAll(A, calls, n - 1),
                        calls[n].timerName, calls[n].config)

----------------------------------------------------------------------------
\* DashboardService over the store.  The record D holds dashboards, the map
\* from id to dashboard; order, the ids in the insertion order of the map;
\* currentDashboard, the current dashboard or nothing; stored, the array
\* under "multi-timer-dashboards"; storedCurrent, the id under
\* "multi-timer-current-dashboard" or nothing.  The id "dashboard-<ms>" is
\* the number <ms>.

InitialDashboards ==
    [dashboards |-> [x \in {} |-> 0], order |-> <<>>, currentDashboard |-> {},
     stored |-> <<>>, storedCurrent |-> {}]

\* StorageService.saveDashboard.
saveDashboard(D, dashboard) ==
    [D EXCEPT !.stored =
        IF \E i \in DOMAIN @ : @[i].id = dashboard.id
        THEN [i \in DOMAIN @ |-> IF @[i].id = dashboard.id THEN dashboard ELSE @[i]]
        ELSE Append(@, dashboard)]

\* StorageService.deleteDashboard.
deleteStoredDashboard(D, id) ==
    [D EXCEPT !.stored = SelectSeq(@, LAMBDA d : d.id # id)]

\* StorageService.saveCurrentDashboard.
saveCurrentDashboard(D, id) == [D EXCEPT !.storedCurrent = {id}]

\* Map.set of the dashboards map.
setDashboard(D, dashboard) ==
    [D EXCEPT !.dashboards = Put(@, dashboard.id, dashboard),
              !.order = IF dashboard.id \in DOMAIN D.dashboards THEN @
                        ELSE Append(@, dashboard.id)]

\* The id createDashboard makes: `dashboard-${Date.now()}`.
dashboardId(now) == now

\* DashboardService.createDashboard.
createDashboard(D, name, now) ==
    LET id == dashboardId(now)
        dashboard == [id |-> id, name |-> name, timerIds |-> <<>>,
                      createdAt |-> now]
        D1 == saveDashboard(setDashboard(D, dashboard), dashboard)
    IN  IF D1.currentDashboard = {}
        THEN saveCurrentDashboard([D1 EXCEPT !.currentDashboard = {dashboard}], id)
        ELSE D1

\* DashboardService.deleteDashboard.
deleteDashboard(D, id) ==
    LET D1 == deleteStoredDashboard(
                  [D EXCEPT !.dashboards = Remove(@, id),
                            !.order = SelectSeq(@, LAMBDA x : x # id)], id)
    IN  IF \E d \in D1.currentDashboard : d.id = id
        THEN IF D1.order = <<>>
             THEN [D1 EXCEPT !.currentDashboard = {}]
             ELSE saveCurrentDashboard(
                      [D1 EXCEPT !.currentDashboard = {D1.dashboards[D1.order[1]]}],
                      D1.order[1])
        ELSE D1

\* DashboardService.addTimerToDashboard.
addTimerToDashboard(D, dashboardId_, timerId) ==
    IF dashboardId_ \notin DOMAIN D.dashboards THEN D
    ELSE LET dashboard == D.dashboards[dashboardId_] IN
         IF \E i \in DOMAIN dashboard.timerIds : dashboard.timerIds[i] = timerId
         THEN D
         ELSE LET updatedDashboard ==
                      [dashboard EXCEPT !.timerIds = Append(@, timerId)]
                  D1 == saveDashboard(setDashboard(D, updatedDashboard),
                                      updatedDashboard)
              IN  IF \E d \in D1.currentDashboard : d.id = dashboardId_
                  THEN [D1 EXCEPT !.currentDashboard = {updatedDashboard}]
                  ELSE D1

----------------------------------------------------------------------------
\* The state machine

Engine ==
    [timers |-> timers, intervals |-> intervals,
     finishedTimers |-> finishedTimers, storedTimers |-> storedTimers,
     storedRuntimes |-> storedRuntimes, effects |-> <<>>, failing |-> {},
     crash |-> NoCrash, observers |-> observers]

\* The engine with every write so far succeeded, after it reached E, in a
\* session with n steps in which a write failed.
RefOf(E, n) ==
    [timers |-> E.timers, intervals |-> E.intervals,
     finishedTimers |-> E.finishedTimers,
     storedRuntimes |-> E.storedRuntimes, failed |-> n]

\* An operation in which every write succeeds.
Commit(E) ==
    /\ timers' = E.timers
    /\ intervals' = E.intervals
    /\ finishedTimers' = E.finishedTimers
    /\ storedTimers' = E.storedTimers
    /\ storedRuntimes' = E.storedRuntimes
    /\ effects' = E.effects
    /\ ref' = RefOf(E, ref.failed)
    /\ observers' = E.observers
    /\ UNCHANGED <<audio, dashboards>>

\* The message of the Error an operation throws, without the id in it.
errorMessage(op) ==
    CASE op = "createCountdownTimer" -> "Total time must be greater than 0"
      [] op \in {"startTimer", "pauseTimer"} -> "Timer with id not found"
      [] op = "resetCountupTimer" -> "Countup timer with id not found"
      [] op \in {"resetCountdownTimer", "acknowledgeTimer", "stopAlert"}
            -> "Countdown timer with id not found"

\* An operation that throws: nothing is changed and nothing is called.
Throw(op, id) ==
    /\ lastOp' = [op |-> op, id |-> id, result |-> "error",
                  message |-> errorMessage(op)]
    /\ effects' = <<>>
    /\ UNCHANGED <<timers, intervals, finishedTimers, nextId, storedTimers,
                   storedRuntimes, clock, created, hist, ref, observers,
                   audio, dashboards>>

Return(op, id) == lastOp' = [op |-> op, id |-> id, result |-> "ok"]

\* The ids operations are called with: every existing id and one absent id.
CallIds == DOMAIN timers \cup {nextId}

Init ==
    /\ clock = MsPerSecond
    /\ timers = EmptyMap
    /\ intervals = {}
    /\ finishedTimers = {}
    /\ nextId = MsPerSecond
    /\ storedTimers = EmptyMap
    /\ storedRuntimes = EmptyMap
    /\ lastOp = [op |-> "construct", id |-> 0, result |-> "ok"]
    /\ effects = <<[kind |-> "saveTimers", timers |-> EmptyMap]>>
    /\ created = 0
    /\ hist = EmptyMap
    /\ ref = [timers |-> EmptyMap, intervals |-> {}, finishedTimers |-> {},
              storedRuntimes |-> EmptyMap, failed |-> 0]
    /\ observers = <<>>
    /\ audio = InitialAudio
    /\ dashboards = InitialDashboards

\* Wall-clock time passes, half a second at a time.
Advance ==
    /\ clock + MsPerSecond \div 2 <= (MaxSeconds + 1) * MsPerSecond
    /\ clock' = clock + MsPerSecond \div 2
    /\ lastOp' = [op |-> "advance", id |-> 0, result |-> "ok"]
    /\ effects' = <<>>
    /\ UNCHANGED <<timers, intervals, finishedTimers, nextId, storedTimers,
                   storedRuntimes, created, hist, ref, observers,
                   audio, dashboards>>

\* A validation that rejects only negative totals.
invalidTotalNegativeOnly(totalSeconds) == totalSeconds < 0

\* createCountdownTimer rejects a total that is not positive.
invalidTotal(totalSeconds) == totalSeconds <= 0

CreateCountdownTimer(totalSeconds, arg) ==
    /\ created < MaxCreates
    /\ IF invalidTotal(totalSeconds)
       THEN Throw("createCountdownTimer", nextId)
       ELSE /\ Commit(addTimer(Engine,
                        newCountdownTimer(nextId, totalSeconds, arg)))
            /\ nextId' = nextId + 1
            /\ created' = created + 1
            /\ hist' = Put(hist, nextId, FreshHist)
            /\ Return("createCountdownTimer", nextId)
            /\ UNCHANGED clock

CreateCountupTimer(label) ==
    /\ created < MaxCreates
    /\ Commit(addTimer(Engine, newCountupTimer(nextId, label)))
    /\ nextId' = nextId + 1
    /\ created' = created + 1
    /\ hist' = Put(hist, nextId, FreshHist)
    /\ Return("createCountupTimer", nextId)
    /\ UNCHANGED clock

StartTimer(id) ==
    IF id \notin DOMAIN timers
    THEN Throw("startTimer", id)
    ELSE LET E == startTimer(Engine, id, clock) IN
         /\ Commit(E)
         /\ Return("startTimer", id)
         /\ hist' = IF startBlocked(timers[id]) THEN hist
                    ELSE [hist EXCEPT ![id] =
                            [s |-> clock,
                             T |-> Value(getComputedTimer(E.timers,
                                           E.storedRuntimes, id, clock)),
                             p |-> 0, restart |-> startRestarts(timers[id]),
                             plays |-> 0, seenZero |-> FALSE]]
         /\ UNCHANGED <<nextId, clock, created>>

\* A pauseTimer that returns silently for an absent id.
PauseTimerIgnoresAbsent(id) ==
    IF id \notin DOMAIN timers
    THEN /\ Return("pauseTimer", id)
         /\ effects' = <<>>
         /\ UNCHANGED <<timers, intervals, finishedTimers, nextId, storedTimers,
                        storedRuntimes, clock, created, hist, ref, observers,
                   audio, dashboards>>
    ELSE /\ Commit(pauseTimer(Engine, id, clock))
         /\ Return("pauseTimer", id)
         /\ hist' = [hist EXCEPT ![id].p =
                        IF hist[id].s # 0 /\ @ = 0 THEN clock ELSE @]
         /\ UNCHANGED <<nextId, clock, created>>

PauseTimer(id) ==
    IF id \notin DOMAIN timers
    THEN Throw("pauseTimer", id)
    ELSE /\ Commit(pauseTimer(Engine, id, clock))
         /\ Return("pauseTimer", id)
         /\ hist' = [hist EXCEPT ![id].p =
                        IF hist[id].s # 0 /\ @ = 0 THEN clock ELSE @]
         /\ UNCHANGED <<nextId, clock, created>>

ResetCountdownTimer(id) ==
    IF ~isCountdownTimer(timers, id)
    THEN Throw("resetCountdownTimer", id)
    ELSE /\ Commit(resetCountdownTimer(Engine, id, clock))
         /\ Return("resetCountdownTimer", id)
         /\ hist' = [hist EXCEPT ![id] = FreshHist]
         /\ UNCHANGED <<nextId, clock, created>>

ResetCountupTimer(id) ==
    IF ~isCountupTimer(timers, id)
    THEN Throw("resetCountupTimer", id)
    ELSE /\ Commit(resetCountupTimer(Engine, id, clock))
         /\ Return("resetCountupTimer", id)
         /\ hist' = [hist EXCEPT ![id] = FreshHist]
         /\ UNCHANGED <<nextId, clock, created>>

AcknowledgeTimer(id) ==
    IF ~isCountdownTimer(timers, id)
    THEN Throw("acknowledgeTimer", id)
    ELSE /\ Commit(acknowledgeTimer(Engine, id))
         /\ Return("acknowledgeTimer", id)
         /\ UNCHANGED <<nextId, clock, created, hist>>

StopAlert(id) ==
    IF ~isCountdownTimer(timers, id)
    THEN Throw("stopAlert", id)
    ELSE /\ Commit(stopAlert(Engine, id))
         /\ Return("stopAlert", id)
         /\ UNCHANGED <<nextId, clock, created, hist>>

DeleteTimer(id) ==
    /\ Commit(deleteTimer(Engine, id))
    /\ Return("deleteTimer", id)
    /\ hist' = Remove(hist, id)
    /\ UNCHANGED <<nextId, clock, created>>

\* The interval of timer id fires.
Tick(id) ==
    /\ id \in intervals
    /\ LET E == tickTimer(Engine, id, clock) IN
       /\ Commit(E)
       /\ hist' = IF id \in DOMAIN hist
                  THEN [hist EXCEPT
                          ![id].plays = AddPlays(@, E.effects, id),
                          ![id].seenZero =
                              @ \/ (getTimer(id).type = "countdown"
                                    /\ getTimer(id).remainingSeconds <= 0)]
                  ELSE hist
    /\ Return("tick", id)
    /\ UNCHANGED <<nextId, clock, created>>

\* The page is reloaded: the engine is discarded and a new one is constructed
\* over the store.
Reload ==
    LET E == construct(storedTimers, storedRuntimes, clock) IN
    /\ Commit(E)
    /\ nextId' = loadedNextId(storedTimers, clock)
    /\ hist' = [id \in DOMAIN hist |->
                  [hist[id] EXCEPT
                     !.plays = AddPlays(@, E.effects, id),
                     !.seenZero = @ \/ id \in E.finishedTimers]]
    /\ lastOp' = [op |-> "construct", id |-> 0, result |-> "ok"]
    /\ UNCHANGED <<clock, created>>

Next ==
    \/ Advance
    \/ \E totalSeconds \in TotalSecondsInputs, arg \in CountdownArgs :
          CreateCountdownTimer(totalSeconds, arg)
    \/ \E label \in CountupLabels : CreateCountupTimer(label)
    \/ \E id \in CallIds : StartTimer(id)
    \/ \E id \in CallIds : PauseTimer(id)
    \/ \E id \in CallIds : ResetCountdownTimer(id)
    \/ \E id \in CallIds : ResetCountupTimer(id)
    \/ \E id \in CallIds : AcknowledgeTimer(id)
    \/ \E id \in CallIds : StopAlert(id)
    \/ \E id \in CallIds : DeleteTimer(id)
    \/ \E id \in intervals : Tick(id)
    \/ Reload

Spec == Init /\ [][Next]_vars

----------------------------------------------------------------------------
\* The same engine over a store whose writes may fail.  Each operation runs
\* twice from the same call: on the engine, with the writes in f failing, and
\* on the reference engine ref, with every write succeeding.  At most
\* MaxFailedSteps operations of a behaviour have a failing write.

\* The (label, alertConfig?) arguments of createCountdownTimer over the
\* failing store: the call that leaves the alert configuration out.
StoreFailsArgs == {arg \in CountdownArgs : ~arg.given}

\* The sets of write operations that fail during one operation.
FailSets == SUBSET StoreWrites

CanFail(f) == f = {} \/ ref.failed < MaxFailedSteps

EngineFailing(f) == [Engine EXCEPT !.failing = f]

\* The reference engine: its own memory and runtime records.
RefEngine ==
    [timers |-> ref.timers, intervals |-> ref.intervals,
     finishedTimers |-> ref.finishedTimers, storedTimers |-> storedTimers,
     storedRuntimes |-> ref.storedRuntimes, effects |-> <<>>, failing |-> {},
     crash |-> NoCrash, observers |-> observers]

\* The operation took the engine to E and the reference engine to R.
CommitBoth(op, id, f, E, R) ==
    /\ timers' = E.timers
    /\ intervals' = E.intervals
    /\ finishedTimers' = E.finishedTimers
    /\ storedTimers' = E.storedTimers
    /\ storedRuntimes' = E.storedRuntimes
    /\ effects' = E.effects
    /\ ref' = RefOf(R, IF f = {} THEN ref.failed ELSE ref.failed + 1)
    /\ Return(op, id)
    /\ UNCHANGED <<clock, hist, observers, audio, dashboards>>

CreateCountdownTimerF(totalSeconds, arg, f) ==
    /\ created < MaxCreates
    /\ CanFail(f)
    /\ IF invalidTotal(totalSeconds)
       THEN Throw("createCountdownTimer", nextId)
       ELSE LET timer == newCountdownTimer(nextId, totalSeconds, arg) IN
            /\ CommitBoth("createCountdownTimer", nextId, f,
                          addTimer(EngineFailing(f), timer),
                          addTimer(RefEngine, timer))
            /\ nextId' = nextId + 1
            /\ created' = created + 1

CreateCountupTimerF(label, f) ==
    /\ created < MaxCreates
    /\ CanFail(f)
    /\ LET timer == newCountupTimer(nextId, label) IN
       CommitBoth("createCountupTimer", nextId, f,
                  addTimer(EngineFailing(f), timer), addTimer(RefEngine, timer))
    /\ nextId' = nextId + 1
    /\ created' = created + 1

StartTimerF(id, f) ==
    /\ CanFail(f)
    /\ IF id \notin DOMAIN timers
       THEN Throw("startTimer", id)
       ELSE /\ CommitBoth("startTimer", id, f,
                          startTimer(EngineFailing(f), id, clock),
                          startTimer(RefEngine, id, clock))
            /\ UNCHANGED <<nextId, created>>

PauseTimerF(id, f) ==
    /\ CanFail(f)
    /\ IF id \notin DOMAIN timers
       THEN Throw("pauseTimer", id)
       ELSE /\ CommitBoth("pauseTimer", id, f,
                          pauseTimer(EngineFailing(f), id, clock),
                          pauseTimer(RefEngine, id, clock))
            /\ UNCHANGED <<nextId, created>>

ResetCountdownTimerF(id, f) ==
    /\ CanFail(f)
    /\ IF ~isCountdownTimer(timers, id)
       THEN Throw("resetCountdownTimer", id)
       ELSE /\ CommitBoth("resetCountdownTimer", id, f,
                          resetCountdownTimer(EngineFailing(f), id, clock),
                          resetCountdownTimer(RefEngine, id, clock))
            /\ UNCHANGED <<nextId, created>>

ResetCountupTimerF(id, f) ==
    /\ CanFail(f)
    /\ IF ~isCountupTimer(timers, id)
       THEN Throw("resetCountupTimer", id)
       ELSE /\ CommitBoth("resetCountupTimer", id, f,
                          resetCountupTimer(EngineFailing(f), id, clock),
                          resetCountupTimer(RefEngine, id, clock))
            /\ UNCHANGED <<nextId, created>>

AcknowledgeTimerF(id, f) ==
    /\ CanFail(f)
    /\ IF ~isCountdownTimer(timers, id)
       THEN Throw("acknowledgeTimer", id)
       ELSE /\ CommitBoth("acknowledgeTimer", id, f,
                          acknowledgeTimer(EngineFailing(f), id),
                          acknowledgeTimer(RefEngine, id))
            /\ UNCHANGED <<nextId, created>>

StopAlertF(id, f) ==
    /\ CanFail(f)
    /\ IF ~isCountdownTimer(timers, id)
       THEN Throw("stopAlert", id)
       ELSE /\ CommitBoth("stopAlert", id, f,
                          stopAlert(EngineFailing(f), id),
                          stopAlert(RefEngine, id))
            /\ UNCHANGED <<nextId, created>>

DeleteTimerF(id, f) ==
    /\ CanFail(f)
    /\ CommitBoth("deleteTimer", id, f,
                  deleteTimer(EngineFailing(f), id), deleteTimer(RefEngine, id))
    /\ UNCHANGED <<nextId, created>>

\* The interval of timer id fires, in each engine that holds one.
TickF(id, f) ==
    /\ CanFail(f)
    /\ id \in intervals \cup ref.intervals
    /\ CommitBoth("tick", id, f,
                  IF id \in intervals
                  THEN tickTimer(EngineFailing(f), id, clock)
                  ELSE EngineFailing(f),
                  IF id \in ref.intervals
                  THEN tickTimer(RefEngine, id, clock)
                  ELSE RefEngine)
    /\ UNCHANGED <<nextId, created>>

NextStoreFails ==
    \/ Advance
    \/ \E totalSeconds \in TotalSecondsInputs, arg \in StoreFailsArgs,
          f \in FailSets : CreateCountdownTimerF(totalSeconds, arg, f)
    \/ \E label \in CountupLabels, f \in FailSets : CreateCountupTimerF(label, f)
    \/ \E id \in CallIds, f \in FailSets : StartTimerF(id, f)
    \/ \E id \in CallIds, f \in FailSets : PauseTimerF(id, f)
    \/ \E id \in CallIds, f \in FailSets : ResetCountdownTimerF(id, f)
    \/ \E id \in CallIds, f \in FailSets : ResetCountupTimerF(id, f)
    \/ \E id \in CallIds, f \in FailSets : AcknowledgeTimerF(id, f)
    \/ \E id \in CallIds, f \in FailSets : StopAlertF(id, f)
    \/ \E id \in CallIds, f \in FailSets : DeleteTimerF(id, f)
    \/ \E id \in intervals \cup ref.intervals, f \in FailSets : TickF(id, f)
    \/ Reload

SpecStoreFails == Init /\ [][NextStoreFails]_vars

----------------------------------------------------------------------------
\* The same engine in a process that may stop inside an operation, between
\* two of its store writes; the page is then loaded again over the store as
\* the stopped process left it.  No write fails, and at most MaxFailedSteps
\* operations of a behaviour are cut short.

\* The operations that write to the store more than once.
CrashOps ==
    {"startTimer", "pauseTimer", "resetCountdownTimer", "resetCountupTimer",
     "deleteTimer", "tick"}

\* Operation op runs on timer id without throwing.
Applies(op, id) ==
    CASE op \in {"startTimer", "pauseTimer", "deleteTimer"} -> id \in DOMAIN timers
      [] op = "resetCountdownTimer" -> isCountdownTimer(timers, id)
      [] op = "resetCountupTimer" -> isCountupTimer(timers, id)
      [] op = "tick" -> id \in intervals

runOp(op, E, id, now) ==
    CASE op = "startTimer" -> startTimer(E, id, now)
      [] op = "pauseTimer" -> pauseTimer(E, id, now)
      [] op = "resetCountdownTimer" -> resetCountdownTimer(E, id, now)
      [] op = "resetCountupTimer" -> resetCountupTimer(E, id, now)
      [] op = "deleteTimer" -> deleteTimer(E, id)
      [] op = "tick" -> tickTimer(E, id, now)

\* The number of store writes among the calls effs.
WritesIn(effs) ==
    Cardinality({i \in DOMAIN effs : effs[i].kind \in StoreWrites})

\* The process stops inside operation op on timer id after k of its store
\* writes, with at least one write still to come, and the page is reloaded.
CrashDuring(op, id, k) ==
    /\ ref.failed < MaxFailedSteps
    /\ Applies(op, id)
    /\ k < WritesIn(runOp(op, Engine, id, clock).effects)
    /\ LET E == runOp(op, [Engine EXCEPT !.crash = [armed |-> TRUE, left |-> k]],
                      id, clock)
           R == construct(E.storedTimers, E.storedRuntimes, clock)
       IN  /\ timers' = R.timers
           /\ intervals' = R.intervals
           /\ finishedTimers' = R.finishedTimers
           /\ storedTimers' = R.storedTimers
           /\ storedRuntimes' = R.storedRuntimes
           /\ effects' = R.effects
           /\ ref' = RefOf(R, ref.failed + 1)
           /\ observers' = R.observers
           /\ UNCHANGED <<audio, dashboards>>
           /\ nextId' = loadedNextId(E.storedTimers, clock)
    /\ lastOp' = [op |-> "crash", id |-> id, result |-> "ok", during |-> op]
    /\ UNCHANGED <<clock, created, hist>>

NextCrash ==
    \/ Advance
    \/ \E totalSeconds \in TotalSecondsInputs, arg \in StoreFailsArgs :
          CreateCountdownTimerF(totalSeconds, arg, {})
    \/ \E label \in CountupLabels : CreateCountupTimerF(label, {})
    \/ \E id \in CallIds : StartTimerF(id, {})
    \/ \E id \in CallIds : PauseTimerF(id, {})
    \/ \E id \in CallIds : ResetCountdownTimerF(id, {})
    \/ \E id \in CallIds : ResetCountupTimerF(id, {})
    \/ \E id \in CallIds : AcknowledgeTimerF(id, {})
    \/ \E id \in CallIds : StopAlertF(id, {})
    \/ \E id \in CallIds : DeleteTimerF(id, {})
    \/ \E id \in intervals : TickF(id, {})
    \/ Reload
    \/ \E op \in CrashOps, id \in DOMAIN timers, k \in 1 .. MaxWritesBeforeCrash :
          CrashDuring(op, id, k)

SpecCrash == Init /\ [][NextCrash]_vars

----------------------------------------------------------------------------
\* The engine with observers subscribing and unsubscribing between its
\* operations.

\* The observers of the application.
ObserverIds == {"renderer", "aggregator"}

Subscribe(o) ==
    /\ observers' = subscribe(observers, o)
    /\ UNCHANGED <<audio, dashboards>>
    /\ lastOp' = [op |-> "subscribe", id |-> 0, result |-> "ok"]
    /\ effects' = <<>>
    /\ UNCHANGED <<timers, intervals, finishedTimers, nextId, storedTimers,
                   storedRuntimes, clock, created, hist, ref>>

Unsubscribe(o) ==
    /\ observers' = unsubscribe(observers, o)
    /\ UNCHANGED <<audio, dashboards>>
    /\ lastOp' = [op |-> "unsubscribe", id |-> 0, result |-> "ok"]
    /\ effects' = <<>>
    /\ UNCHANGED <<timers, intervals, finishedTimers, nextId, storedTimers,
                   storedRuntimes, clock, created, hist, ref>>

NextObservers ==
    \/ Advance
    \/ \E totalSeconds \in TotalSecondsInputs, arg \in StoreFailsArgs :
          CreateCountdownTimerF(totalSeconds, arg, {})
    \/ \E label \in CountupLabels : CreateCountupTimerF(label, {})
    \/ \E id \in CallIds : StartTimerF(id, {})
    \/ \E id \in CallIds : PauseTimerF(id, {})
    \/ \E id \in CallIds : ResetCountdownTimerF(id, {})
    \/ \E id \in CallIds : ResetCountupTimerF(id, {})
    \/ \E id \in CallIds : AcknowledgeTimerF(id, {})
    \/ \E id \in CallIds : StopAlertF(id, {})
    \/ \E id \in CallIds : DeleteTimerF(id, {})
    \/ \E id \in intervals : TickF(id, {})
    \/ Reload
    \/ \E o \in ObserverIds : Subscribe(o)
    \/ \E o \in ObserverIds : Unsubscribe(o)

SpecObservers == Init /\ [][NextObservers]_vars

----------------------------------------------------------------------------
\* The engine with its two queries called between its operations.

\* The ids of a set, smallest first: the order of the timers map, whose keys
\* are inserted in increasing order.
RECURSIVE InOrder(_)
InOrder(S) ==
    IF S = {} THEN <<>>
    ELSE LET m == CHOOSE x \in S : \A y \in S : x <= y
         IN  <<m>> \o InOrder(S \ {m})

\* The forEach of getAllTimers over the first n timers.
RECURSIVE readAll(_, _, _, _)
readAll(E, ids, n, now) ==
    IF n = 0 THEN E ELSE readComputedTimer(readAll(E, ids, n - 1, now), ids[n], now)

GetTimer(id) ==
    /\ Commit(readComputedTimer(Engine, id, clock))
    /\ lastOp' = [op |-> "getTimer", id |-> id, result |-> "ok",
                  value |-> computedOrUndefined(timers, storedRuntimes, id, clock)]
    /\ UNCHANGED <<nextId, clock, created, hist>>

GetAllTimers ==
    /\ LET ids == InOrder(DOMAIN timers)
       IN  Commit(readAll(Engine, ids, Len(ids), clock))
    /\ lastOp' = [op |-> "getAllTimers", id |-> 0, result |-> "ok",
                  value |-> getAllTimers(timers, storedRuntimes, clock)]
    /\ UNCHANGED <<nextId, clock, created, hist>>

NextReads ==
    \/ Advance
    \/ \E totalSeconds \in TotalSecondsInputs, arg \in StoreFailsArgs :
          CreateCountdownTimerF(totalSeconds, arg, {})
    \/ \E label \in CountupLabels : CreateCountupTimerF(label, {})
    \/ \E id \in CallIds : StartTimerF(id, {})
    \/ \E id \in CallIds : PauseTimerF(id, {})
    \/ \E id \in CallIds : ResetCountdownTimerF(id, {})
    \/ \E id \in CallIds : ResetCountupTimerF(id, {})
    \/ \E id \in CallIds : AcknowledgeTimerF(id, {})
    \/ \E id \in CallIds : StopAlertF(id, {})
    \/ \E id \in CallIds : DeleteTimerF(id, {})
    \/ \E id \in intervals : TickF(id, {})
    \/ Reload
    \/ \E id \in CallIds : GetTimer(id)
    \/ GetAllTimers

SpecReads == Init /\ [][NextReads]_vars

----------------------------------------------------------------------------
\* The engine with two timers: a countdown timer, created first, and a
\* count-up timer.

\* Wall-clock time passes, a second at a time.
AdvanceSecond ==
    /\ clock + MsPerSecond <= (MaxSeconds + 1) * MsPerSecond
    /\ clock' = clock + MsPerSecond
    /\ lastOp' = [op |-> "advance", id |-> 0, result |-> "ok"]
    /\ effects' = <<>>
    /\ UNCHANGED <<timers, intervals, finishedTimers, nextId, storedTimers,
                   storedRuntimes, created, hist, ref, observers,
                   audio, dashboards>>

CreateCountdownTimerT(totalSeconds, arg) ==
    /\ created = 0
    /\ LET timer == newCountdownTimer(nextId, totalSeconds, arg) IN
       CommitBoth("createCountdownTimer", nextId, {},
                  addTimer(Engine, timer), addTimer(RefEngine, timer))
    /\ nextId' = nextId + 1
    /\ created' = created + 1

CreateCountupTimerT(label) ==
    /\ 0 < created /\ created < MaxTimers
    /\ LET timer == newCountupTimer(nextId, label) IN
       CommitBoth("createCountupTimer", nextId, {},
                  addTimer(Engine, timer), addTimer(RefEngine, timer))
    /\ nextId' = nextId + 1
    /\ created' = created + 1

NextTwoTimers ==
    \/ AdvanceSecond
    \/ \E arg \in StoreFailsArgs : CreateCountdownTimerT(TwoTimersTotal, arg)
    \/ \E label \in CountupLabels : CreateCountupTimerT(label)
    \/ \E id \in CallIds : StartTimerF(id, {})
    \/ \E id \in CallIds : PauseTimerF(id, {})
    \/ \E id \in CallIds : ResetCountdownTimerF(id, {})
    \/ \E id \in CallIds : ResetCountupTimerF(id, {})
    \/ \E id \in CallIds : AcknowledgeTimerF(id, {})
    \/ \E id \in CallIds : StopAlertF(id, {})
    \/ \E id \in CallIds : DeleteTimerF(id, {})
    \/ \E id \in intervals : TickF(id, {})
    \/ Reload

SpecTwoTimers == Init /\ [][NextTwoTimers]_vars

----------------------------------------------------------------------------
\* The audio service with the calls the engine makes on it, the events of
\* the browser and the reload of the page.

\* The engine is not called.
EngineIdle ==
    UNCHANGED <<timers, intervals, finishedTimers, nextId, storedTimers,
                storedRuntimes, created, hist, ref, observers>>

\* The alert configurations playAlert is called with.
AlertConfigs == {DEFAULT_ALERT_CONFIG, TwiceAlertConfig, CustomAlertConfig}

\* The engine operations that call cancelAlert.
CancellingOps == {"acknowledgeTimer", "stopAlert", "deleteTimer"}

\* The playAlert calls resumeRunningTimers makes in a constructor: none, or
\* one for each timer it finds run out and unacknowledged.
ConstructorCalls ==
    {<<>>,
     <<[timerName |-> "tea", config |-> DEFAULT_ALERT_CONFIG]>>,
     <<[timerName |-> "tea", config |-> DEFAULT_ALERT_CONFIG],
       [timerName |-> "bake", config |-> TwiceAlertConfig]>>}

\* The first click or touch on the page.
Interact ==
    /\ ~audio.isInitialized
    /\ audio' = [audio EXCEPT !.isInitialized = TRUE]
    /\ lastOp' = [op |-> "click", id |-> 0, result |-> "ok"]
    /\ effects' = <<>>
    /\ EngineIdle
    /\ UNCHANGED <<clock, dashboards>>

\* The engine calls audioService.playAlert(timerName, config).
AudioPlayAlert(timerName, config) ==
    /\ playAlertAccepted(audio, config) => audio.nextSeq < MaxAlerts
    /\ audio' = audioPlayAlert(audio, timerName, config)
    /\ lastOp' = [op |-> "playAlert", id |-> 0,
                  result |-> IF playAlertAccepted(audio, config)
                             THEN "ok" ELSE "dropped",
                  timerName |-> timerName, config |-> config]
    /\ effects' = <<>>
    /\ EngineIdle
    /\ UNCHANGED <<clock, dashboards>>

\* An engine operation calls audioService.cancelAlert().
AudioCancelAlert(op) ==
    /\ audio' = [audioCancelAlert(audio) EXCEPT !.cancelledBelow = audio.nextSeq]
    /\ lastOp' = [op |-> "cancelAlert", id |-> 0, result |-> "ok", by |-> op]
    /\ effects' = <<>>
    /\ EngineIdle
    /\ UNCHANGED <<clock, dashboards>>

\* The utterance being spoken comes to its end.
UtteranceEnds ==
    \E u \in audio.speaking :
        /\ u.repetitionCount < MaxRepeats
        /\ audio' = onend([audio EXCEPT !.speaking = {}], u)
        /\ lastOp' = [op |-> "end", id |-> 0, result |-> "ok"]
        /\ effects' = <<>>
        /\ EngineIdle
        /\ UNCHANGED <<clock, dashboards>>

\* The browser closes an utterance that a cancel() cut short with an end
\* event.
DeliverEnd ==
    \E u \in audio.interrupted :
        /\ u.repetitionCount < MaxRepeats
        /\ audio' = onend([audio EXCEPT !.interrupted = @ \ {u}], u)
        /\ lastOp' = [op |-> "endAfterCancel", id |-> 0, result |-> "ok"]
        /\ effects' = <<>>
        /\ EngineIdle
        /\ UNCHANGED <<clock, dashboards>>

\* The browser closes an utterance that a cancel() cut short with an error
\* event: onerror logs it.
DeliverError ==
    \E u \in audio.interrupted :
        /\ audio' = [audio EXCEPT !.interrupted = @ \ {u}]
        /\ lastOp' = [op |-> "errorAfterCancel", id |-> 0, result |-> "ok"]
        /\ effects' = <<>>
        /\ EngineIdle
        /\ UNCHANGED <<clock, dashboards>>

\* A scheduled repeat fires: the callback of setTimeout.
TimeoutFires ==
    \E h \in audio.pending :
        /\ audio' = speakMessage([audio EXCEPT !.pending = @ \ {h}],
                                 h.timerName, h.config, h.repetitionCount, h.seq)
        /\ lastOp' = [op |-> "timeout", id |-> 0, result |-> "ok"]
        /\ effects' = <<>>
        /\ EngineIdle
        /\ UNCHANGED <<clock, dashboards>>

\* The page is loaded again: a new AudioService, then a new TimerService,
\* whose constructor makes the playAlert calls.
PageLoad(calls) ==
    /\ audio' = audioPlayAll(InitialAudio, calls, Len(calls))
    /\ lastOp' = [op |-> "construct", id |-> 0, result |-> "ok"]
    /\ effects' = [i \in DOMAIN calls |->
                     [kind |-> "playAlert", timerId |-> i,
                      timerName |-> calls[i].timerName,
                      config |-> calls[i].config]]
    /\ EngineIdle
    /\ UNCHANGED <<clock, dashboards>>

NextAudio ==
    \/ Interact
    \/ \E timerName \in {"tea", "bake"}, config \in AlertConfigs :
          AudioPlayAlert(timerName, config)
    \/ \E op \in CancellingOps : AudioCancelAlert(op)
    \/ UtteranceEnds
    \/ DeliverEnd
    \/ DeliverError
    \/ TimeoutFires
    \/ \E calls \in ConstructorCalls : PageLoad(calls)

SpecAudio == Init /\ [][NextAudio]_vars

----------------------------------------------------------------------------
\* The dashboard service.

CommitDashboards(op, id, D) ==
    /\ dashboards' = D
    /\ lastOp' = [op |-> op, id |-> id, result |-> "ok"]
    /\ effects' = <<>>
    /\ EngineIdle
    /\ UNCHANGED <<clock, audio>>

CreateDashboard(name) ==
    /\ \/ Len(dashboards.order) < MaxDashboards
       \/ dashboardId(clock) \in DOMAIN dashboards.dashboards
    /\ CommitDashboards("createDashboard", dashboardId(clock),
                        createDashboard(dashboards, name, clock))

DeleteDashboard(id) ==
    CommitDashboards("deleteDashboard", id, deleteDashboard(dashboards, id))

AddTimerToDashboard(id, timerId) ==
    CommitDashboards("addTimerToDashboard", id,
                     addTimerToDashboard(dashboards, id, timerId))

NextDashboards ==
    \/ Advance
    \/ \E name \in {"kitchen", "gym"} : CreateDashboard(name)
    \/ \E id \in DOMAIN dashboards.dashboards : DeleteDashboard(id)
    \/ \E id \in DOMAIN dashboards.dashboards, timerId \in {1, 2} :
          AddTimerToDashboard(id, timerId)

SpecDashboards == Init /\ [][NextDashboards]_vars

----------------------------------------------------------------------------
\* Properties

IsCountdown(id) == id \in DOMAIN timers /\ timers[id].type = "countdown"

\* Whole seconds between two clock readings.
SecondsBetween(from, to) == (to - from) \div MsPerSecond

\* The last step was operation op on timer id.
Did(op, id) == lastOp.op = op /\ lastOp.id = id

\* The step being taken is operation op on timer id.
Does(op, id) == lastOp'.op = op /\ lastOp'.id = id

Played(effs, timerName, config) ==
    \E i \in DOMAIN effs :
        /\ effs[i].kind = "playAlert"
        /\ effs[i].timerName = timerName
        /\ effs[i].config = config

\* C1: for every countdown timer and every completion, playAlert is invoked
\* exactly once before the timer is acknowledged: never a second time for the
\* same run (repeated ticks, resume detection after a reload), and once when
\* the timer has finished.
C1_PlayAlertOncePerCompletion ==
    \A id \in DOMAIN timers :
        timers[id].type = "countdown" =>
            /\ hist[id].plays <= 1
            /\ timers[id].isFinished => hist[id].plays = 1

\* C2: a timer started at time s showing T, with the engine discarded and
\* re-created from the store at any time, shows max(0, T - k) at time s + k
\* seconds (T + k for a count-up timer), as an engine that never restarted.
C2_ProjectionSurvivesReload ==
    \A id \in DOMAIN timers :
        (hist[id].s # 0 /\ hist[id].p = 0) =>
            Value(getTimer(id)) =
                IF timers[id].type = "countdown"
                THEN Max(0, hist[id].T - SecondsBetween(hist[id].s, clock))
                ELSE hist[id].T + SecondsBetween(hist[id].s, clock)

C2_Witness ==
    \E id \in DOMAIN timers :
        /\ lastOp.op = "construct"
        /\ timers[id].type = "countdown"
        /\ hist[id].s # 0 /\ hist[id].p = 0
        /\ hist[id].T = 2
        /\ SecondsBetween(hist[id].s, clock) = 1
        /\ getTimer(id).remainingSeconds = 1

\* C3: a tick of a running countdown timer that observes projected
\* remaining == 0 for the first time in a run (a run that began above zero,
\* with no earlier tick or resume detection at zero) leaves the timer stored and
\* persisted finished, stopped at 0, with its runtime record cleared and its
\* schedule cancelled, and has invoked playAlert with its label and config.
C3_FirstZeroTickFinishes ==
    [][\A id \in DOMAIN timers :
          (/\ Does("tick", id)
           /\ timers[id].type = "countdown"
           /\ timers[id].isRunning
           /\ hist[id].T > 0
           /\ getTimer(id).remainingSeconds = 0
           /\ ~hist[id].seenZero)
          => /\ id \in DOMAIN timers'
             /\ timers'[id].isFinished
             /\ ~timers'[id].isRunning
             /\ timers'[id].remainingSeconds = 0
             /\ id \in DOMAIN storedTimers'
             /\ storedTimers'[id] = timers'[id]
             /\ ~ActiveRuntime(storedRuntimes', id)
             /\ id \notin intervals'
             /\ Played(effects', timers[id].label, timers[id].alertConfig)
      ]_vars

\* C4: a countdown timer whose time ran out while no engine was running is
\* finished, stopped and without an active runtime record after process
\* start, at the latest after the tick that follows the construction.
C4_ExpiredAtLoadFinishes ==
    [][\A id \in DOMAIN timers :
          (/\ lastOp.op = "construct"
           /\ Does("tick", id)
           /\ timers[id].type = "countdown"
           /\ ActiveRuntime(storedRuntimes, id)
           /\ getTimer(id).remainingSeconds = 0)
          => /\ id \in DOMAIN timers'
             /\ timers'[id].isFinished
             /\ ~timers'[id].isRunning
             /\ ~ActiveRuntime(storedRuntimes', id)
      ]_vars

\* C5: a countdown timer started showing R and paused exactly n whole
\* seconds later (n <= R) is stored and projected at R - n, stopped, with no
\* active runtime record, and keeps showing R - n as time passes.
C5_StartPauseFreezesRemaining ==
    \A id \in DOMAIN timers :
        (/\ timers[id].type = "countdown"
         /\ hist[id].s # 0 /\ hist[id].p # 0
         /\ (hist[id].p - hist[id].s) % MsPerSecond = 0
         /\ SecondsBetween(hist[id].s, hist[id].p) <= hist[id].T)
        => /\ timers[id].remainingSeconds =
                  hist[id].T - SecondsBetween(hist[id].s, hist[id].p)
           /\ getTimer(id).remainingSeconds =
                  hist[id].T - SecondsBetween(hist[id].s, hist[id].p)
           /\ ~timers[id].isRunning
           /\ ~ActiveRuntime(storedRuntimes, id)

C5_Witness ==
    \E id \in DOMAIN timers :
        /\ timers[id].type = "countdown"
        /\ hist[id].s # 0
        /\ hist[id].T = 2
        /\ hist[id].p = hist[id].s + MsPerSecond
        /\ clock > hist[id].p
        /\ getTimer(id).remainingSeconds = 1

\* C6: startTimer on an unfinished timer, stopped or already running, writes
\* a runtime record with startedAt = now and base = the projected value, so
\* getTimer returns the same value right after the call as right before.
C6_StartKeepsProjectedValue ==
    [][\A id \in DOMAIN timers :
          (/\ Does("startTimer", id)
           /\ ~timers[id].isFinished)
          => /\ ActiveRuntime(storedRuntimes', id)
             /\ storedRuntimes'[id].startedAt = clock
             /\ Value(getComputedTimer(timers', storedRuntimes', id, clock'))
                    = Value(getTimer(id))
      ]_vars

\* C7: startTimer on a finished, unacknowledged countdown timer returns
\* without changing the timer, its runtime record, its schedule, the marker
\* or the persisted collection and without any call to the store, the audio
\* service or the observers; such a timer is never running.
C7_StartOfUnacknowledgedIsNoOp ==
    /\ [][\A id \in DOMAIN timers :
             (/\ Does("startTimer", id)
              /\ timers[id].type = "countdown"
              /\ timers[id].isFinished
              /\ ~timers[id].isAcknowledged)
             => /\ lastOp'.result = "ok"
                /\ effects' = <<>>
                /\ UNCHANGED <<timers, intervals, finishedTimers,
                               storedTimers, storedRuntimes>>
         ]_vars
    /\ [](\A id \in DOMAIN timers :
             (/\ timers[id].type = "countdown"
              /\ timers[id].isFinished
              /\ ~timers[id].isAcknowledged)
             => /\ ~timers[id].isRunning
                /\ id \notin intervals
                /\ ~ActiveRuntime(storedRuntimes, id))

C7_Witness ==
    \E id \in DOMAIN timers :
        /\ Did("startTimer", id)
        /\ timers[id].type = "countdown"
        /\ timers[id].isFinished
        /\ ~timers[id].isAcknowledged
        /\ id \in finishedTimers

\* C8: startTimer on a finished, acknowledged countdown timer resets
\* remainingSeconds to totalSeconds, clears isFinished, isAcknowledged and
\* the marker, and leaves the timer running on a runtime record whose base
\* is totalSeconds.
C8_RestartResetsToTotal ==
    [][\A id \in DOMAIN timers :
          (/\ Does("startTimer", id)
           /\ timers[id].type = "countdown"
           /\ timers[id].isFinished
           /\ timers[id].isAcknowledged)
          => /\ lastOp'.result = "ok"
             /\ timers'[id].totalSeconds = timers[id].totalSeconds
             /\ timers'[id].remainingSeconds = timers[id].totalSeconds
             /\ ~timers'[id].isFinished
             /\ ~timers'[id].isAcknowledged
             /\ timers'[id].isRunning
             /\ id \notin finishedTimers'
             /\ id \in intervals'
             /\ ActiveRuntime(storedRuntimes', id)
             /\ storedRuntimes'[id].startedAt = clock
             /\ storedRuntimes'[id].baseRemainingSeconds = timers[id].totalSeconds
             /\ getComputedTimer(timers', storedRuntimes', id, clock').remainingSeconds
                    = timers[id].totalSeconds
      ]_vars

C8_Witness ==
    \E id \in DOMAIN timers :
        /\ Did("startTimer", id)
        /\ hist[id].restart
        /\ hist[id].s = clock
        /\ timers[id].isRunning
        /\ timers[id].remainingSeconds = 2

\* C9: acknowledgeTimer and stopAlert on an existing countdown timer invoke
\* cancelAlert, set isAcknowledged, persist the collection and fire
\* onTimerUpdated, and leave every other field of the timer, the runtime
\* records, the schedules and the markers unchanged.
C9_AcknowledgeFrame ==
    [][\A id \in DOMAIN timers :
          (/\ Does("acknowledgeTimer", id) \/ Does("stopAlert", id)
           /\ timers[id].type = "countdown")
          => /\ lastOp'.result = "ok"
             /\ timers' = [timers EXCEPT ![id].isAcknowledged = TRUE]
             /\ UNCHANGED <<intervals, finishedTimers, storedRuntimes>>
             /\ storedTimers' = timers'
             /\ effects' =
                  << [kind |-> "cancelAlert"],
                     [kind |-> "saveTimers", timers |-> timers'],
                     [kind |-> "notify", method |-> "onTimerUpdated",
                      data |-> timers'[id]] >>
      ]_vars

C9_Witness ==
    \E id \in DOMAIN timers :
        /\ Did("stopAlert", id)
        /\ lastOp.result = "ok"
        /\ timers[id].isFinished
        /\ timers[id].isAcknowledged
        /\ effects[1].kind = "cancelAlert"

\* C10 as claimed: acknowledgeTimer and stopAlert on a countdown timer that
\* is not finished fail with an error and leave the timer unchanged.
C10_AcknowledgeUnfinishedFails ==
    [][\A id \in DOMAIN timers :
          (/\ Does("acknowledgeTimer", id) \/ Does("stopAlert", id)
           /\ timers[id].type = "countdown"
           /\ ~timers[id].isFinished)
          => /\ lastOp'.result = "error"
             /\ timers' = timers
      ]_vars

\* C10 as amended: acknowledgeTimer and stopAlert on a countdown timer that
\* is not finished return normally, having cancelled the alert and set
\* isAcknowledged with isFinished still false; they fail with an error, and
\* change nothing, exactly when the id is absent or names a count-up timer.
C10_AcknowledgeUnfinishedSucceeds ==
    [][\A id \in CallIds :
          (Does("acknowledgeTimer", id) \/ Does("stopAlert", id))
          => /\ (id \in DOMAIN timers /\ timers[id].type = "countdown"
                                      /\ ~timers[id].isFinished)
                => /\ lastOp'.result = "ok"
                   /\ timers'[id].isAcknowledged
                   /\ ~timers'[id].isFinished
                   /\ effects'[1].kind = "cancelAlert"
             /\ lastOp'.result = "error"
                <=> (id \notin DOMAIN timers \/ timers[id].type # "countdown")
             /\ lastOp'.result = "error"
                => UNCHANGED <<timers, storedTimers, storedRuntimes>>
      ]_vars

C10_Witness ==
    \E id \in DOMAIN timers :
        /\ Did("acknowledgeTimer", id)
        /\ lastOp.result = "ok"
        /\ timers[id].isRunning
        /\ ~timers[id].isFinished
        /\ timers[id].isAcknowledged

\* The operations that take an id and modify the timer, deleteTimer excepted.
IdOps ==
    {"startTimer", "pauseTimer", "resetCountdownTimer", "resetCountupTimer",
     "acknowledgeTimer", "stopAlert"}

\* The id does not name a timer the operation applies to.
BadTarget(op, id) ==
    \/ id \notin DOMAIN timers
    \/ op \in {"resetCountdownTimer", "acknowledgeTimer", "stopAlert"}
           /\ timers[id].type # "countdown"
    \/ op = "resetCountupTimer" /\ timers[id].type # "countup"

\* The notifications of method m among the calls effs.
Notified(effs, m) ==
    {i \in DOMAIN effs : effs[i].kind = "notify" /\ effs[i].method = m}

\* C11: startTimer, pauseTimer, resetCountdownTimer, resetCountupTimer,
\* acknowledgeTimer and stopAlert called with an absent id, or on a timer of
\* the wrong type for the type-specific ones, raise an error and change
\* nothing: timers, runtime records, schedules, markers and persisted state
\* are unchanged and no call reaches the store, the observers or the audio
\* service.
C11_BadTargetFailsWithoutEffect ==
    [][\A op \in IdOps : \A id \in CallIds :
          (Does(op, id) /\ BadTarget(op, id))
          => /\ lastOp'.result = "error"
             /\ effects' = <<>>
             /\ UNCHANGED <<timers, intervals, finishedTimers, nextId,
                            storedTimers, storedRuntimes>>
      ]_vars

C11_Witness ==
    /\ lastOp.op = "resetCountdownTimer"
    /\ lastOp.result = "error"
    /\ lastOp.id \in DOMAIN timers
    /\ timers[lastOp.id].type = "countup"
    /\ timers[lastOp.id].isRunning

C13_NonPositiveTotalRejected ==
    [][Does("createCountdownTimer", nextId)
          => \/ /\ lastOp'.result = "error"
                /\ effects' = <<>>
                /\ UNCHANGED <<timers, intervals, finishedTimers, nextId,
                               storedTimers, storedRuntimes>>
             \/ /\ lastOp'.result = "ok"
                /\ timers'[nextId].totalSeconds > 0
      ]_vars

C13_Witness ==
    /\ lastOp.op = "createCountdownTimer"
    /\ lastOp.result = "error"
    /\ lastOp.id = nextId
    /\ timers = EmptyMap
    /\ storedTimers = EmptyMap

\* C14: deleteTimer(id) on an existing timer, whatever its state, removes it
\* from the map (so from getTimer and getAllTimers), from the persisted
\* collection and from the stored runtime records, cancels its schedule,
\* clears its marker and fires onTimerDeleted(id) once; a construction over
\* the store it leaves does not bring the timer back.
C14_DeleteRemovesEverywhere ==
    [][\A id \in DOMAIN timers :
          Does("deleteTimer", id)
          => /\ lastOp'.result = "ok"
             /\ id \notin DOMAIN timers'
             /\ \A t \in getAllTimers(timers', storedRuntimes', clock') : t.id # id
             /\ id \notin DOMAIN storedTimers'
             /\ ~HasRuntime(storedRuntimes', id)
             /\ id \notin intervals'
             /\ id \notin finishedTimers'
             /\ Cardinality(Notified(effects', "onTimerDeleted")) = 1
             /\ \A i \in Notified(effects', "onTimerDeleted") : effects'[i].data = id
             /\ LET E == construct(storedTimers', storedRuntimes', clock')
                IN  id \notin DOMAIN E.timers /\ id \notin E.intervals
      ]_vars

C14_Witness ==
    /\ lastOp.op = "deleteTimer"
    /\ lastOp.result = "ok"
    /\ lastOp.id \notin DOMAIN timers
    /\ Notified(effects, "onTimerDeleted") # {}
    /\ storedTimers = EmptyMap
    /\ storedRuntimes = EmptyMap
    /\ clock > MsPerSecond

\* C15: deleteTimer(id) with an absent id returns normally and does nothing:
\* no state changes, nothing is persisted, and neither the audio service nor
\* an observer is called.
C15_DeleteOfAbsentIsNoOp ==
    [][\A id \in CallIds :
          (Does("deleteTimer", id) /\ id \notin DOMAIN timers)
          => /\ lastOp'.result = "ok"
             /\ effects' = <<>>
             /\ UNCHANGED <<timers, intervals, finishedTimers, nextId,
                            storedTimers, storedRuntimes>>
      ]_vars

C15_Witness ==
    /\ lastOp.op = "deleteTimer"
    /\ lastOp.result = "ok"
    /\ lastOp.id \notin DOMAIN timers
    /\ effects = <<>>
    /\ timers # EmptyMap

\* C16: after resetCountdownTimer(id) (resp. resetCountupTimer(id)) on an
\* existing timer of the matching type, stopped, running or finished, the
\* timer is stopped at its initial value: isRunning = false, remainingSeconds
\* = totalSeconds (resp. elapsedSeconds = 0), isFinished = false,
\* isAcknowledged = false, no runtime record, no schedule, no marker.
C16_ResetStopsAtInitialValue ==
    [][\A id \in DOMAIN timers :
          (\/ Does("resetCountdownTimer", id) /\ timers[id].type = "countdown"
           \/ Does("resetCountupTimer", id) /\ timers[id].type = "countup")
          => /\ lastOp'.result = "ok"
             /\ ~timers'[id].isRunning
             /\ ~timers'[id].isFinished
             /\ IF timers[id].type = "countdown"
                THEN /\ timers'[id].remainingSeconds = timers'[id].totalSeconds
                     /\ ~timers'[id].isAcknowledged
                ELSE timers'[id].elapsedSeconds = 0
             /\ ~HasRuntime(storedRuntimes', id)
             /\ id \notin intervals'
             /\ id \notin finishedTimers'
      ]_vars

\* C17: in every reachable state and at every clock reading, the stored,
\* the persisted and the projected remainingSeconds of every countdown timer
\* lie in [0, totalSeconds], and no step changes the totalSeconds of a timer.
C17_RemainingWithinTotal ==
    /\ [](\A id \in DOMAIN timers :
             timers[id].type = "countdown"
             => /\ timers[id].remainingSeconds \in 0 .. timers[id].totalSeconds
                /\ getTimer(id).remainingSeconds \in 0 .. timers[id].totalSeconds
                /\ getTimer(id).totalSeconds = timers[id].totalSeconds
                /\ id \in DOMAIN storedTimers
                   => storedTimers[id].remainingSeconds
                          \in 0 .. storedTimers[id].totalSeconds)
    /\ [][\A id \in DOMAIN timers \cap DOMAIN timers' :
             timers[id].type = "countdown"
             => /\ timers'[id].type = "countdown"
                /\ timers'[id].totalSeconds = timers[id].totalSeconds
                /\ storedTimers'[id].totalSeconds = timers[id].totalSeconds
         ]_vars

\* A running countdown timer whose run has lasted longer than its base: the
\* projection is held at zero.
C17_Witness ==
    \E id \in DOMAIN timers :
        /\ timers[id].type = "countdown"
        /\ ActiveRuntime(storedRuntimes, id)
        /\ elapsedSeconds(storedRuntimes[id], clock)
               > baseRemaining(storedRuntimes[id], timers[id])
        /\ getTimer(id).remainingSeconds = 0
        /\ timers[id].remainingSeconds > 0

\* C18: in every reachable state a countdown timer with isFinished = true
\* has remainingSeconds = 0 (stored and projected), isRunning = false, no
\* active runtime record and no schedule.
C18_FinishedIsStoppedAtZero ==
    \A id \in DOMAIN timers :
        (timers[id].type = "countdown" /\ timers[id].isFinished)
        => /\ timers[id].remainingSeconds = 0
           /\ getTimer(id).remainingSeconds = 0
           /\ ~timers[id].isRunning
           /\ ~ActiveRuntime(storedRuntimes, id)
           /\ id \notin intervals

C18_Witness ==
    \E id \in DOMAIN timers :
        /\ Did("tick", id)
        /\ timers[id].type = "countdown"
        /\ timers[id].isFinished
        /\ timers[id].totalSeconds = 2
        /\ HasRuntime(storedRuntimes, id)

\* C19: a count-up timer is never finished, a tick of a count-up timer
\* changes neither the timer nor its schedule nor the store, and no step
\* invokes playAlert for a count-up timer.
C19_CountupNeverFinishes ==
    /\ [](\A id \in DOMAIN timers :
             timers[id].type = "countup"
             => /\ ~timers[id].isFinished
                /\ ~getTimer(id).isFinished
                /\ id \notin finishedTimers)
    /\ [][\A id \in DOMAIN timers :
             timers[id].type = "countup"
             => /\ PlaysIn(effects', id) = 0
                /\ Does("tick", id)
                   => UNCHANGED <<timers, intervals, storedTimers, storedRuntimes>>
         ]_vars

C19_Witness ==
    \E id \in DOMAIN timers :
        /\ Did("tick", id)
        /\ timers[id].type = "countup"
        /\ timers[id].isRunning
        /\ getTimer(id).elapsedSeconds = 2
        /\ id \in intervals

\* C20: when writes to the store fail, every value getTimer and getAllTimers
\* return during the rest of the session, and every finish detection, is the
\* one of the session in which every write succeeded.
C20_SessionUnaffectedByWriteFailures ==
    /\ DOMAIN timers = DOMAIN ref.timers
    /\ getAllTimers(timers, storedRuntimes, clock)
           = getAllTimers(ref.timers, ref.storedRuntimes, clock)
    /\ finishedTimers = ref.finishedTimers

\* The calls of effs that are store writes which did not fail: position i is
\* a write and is not followed by the catch block's console.error.
Failed(effs, i) ==
    i < Len(effs) /\ effs[i].kind \in StoreWrites
                  /\ effs[i + 1].kind = "console.error"

\* The store content after the calls effs[1..n] over the content <<ts, rts>>,
\* a failed write contributing nothing.
RECURSIVE StoreAfter(_, _, _, _)
StoreAfter(ts, rts, effs, n) ==
    IF n = 0 THEN <<ts, rts>>
    ELSE LET before == StoreAfter(ts, rts, effs, n - 1)
             e      == effs[n]
         IN  IF e.kind \notin StoreWrites \/ Failed(effs, n) THEN before
             ELSE IF e.kind = "saveTimers" THEN <<e.timers, before[2]>>
             ELSE IF e.kind = "saveTimerRuntime"
                  THEN <<before[1], Put(before[2], e.runtime.timerId, e.runtime)>>
             ELSE <<before[1], Remove(before[2], e.timerId)>>

\* C21: a store write that fails does not raise into the engine or its
\* caller (the operation returns as it does when the write succeeds, and
\* goes on to its later calls) and leaves the persisted timer collection and
\* runtime records as they were before the failed call: the store after an
\* operation is the store before it with the successful writes applied.
C21_FailedWriteChangesNothing ==
    [][(lastOp'.op \notin {"advance", "construct"})
          => /\ (\E i \in DOMAIN effects' : effects'[i].kind = "console.error")
                => /\ lastOp'.result = "ok"
                   /\ effects'[Len(effects')].kind = "notify"
             /\ <<storedTimers', storedRuntimes'>>
                   = StoreAfter(storedTimers, storedRuntimes, effects', Len(effects'))
      ]_vars

C21_Witness ==
    \E id \in DOMAIN timers :
        /\ Did("pauseTimer", id)
        /\ lastOp.result = "ok"
        /\ Failed(effects, 1)
        /\ Failed(effects, 3)
        /\ ~timers[id].isRunning
        /\ ActiveRuntime(storedRuntimes, id)
        /\ storedTimers[id].isRunning

\* What getAllTimers returns from the engine state E at the current clock.
Shown(E) == getAllTimers(E.timers, E.storedRuntimes, clock)

\* C22: when the process stops between the two store writes of startTimer or
\* of pauseTimer and the engine is re-created from the store, every timer shows the state it
\* had before the operation or the state it has after the completed
\* operation (in the running engine or after a reload), and nothing else.
C22_CrashLosesAtMostTheOperation ==
    [][(lastOp'.op = "crash" /\ lastOp'.during \in {"startTimer", "pauseTimer"})
          => LET full   == runOp(lastOp'.during, Engine, lastOp'.id, clock)
                 before == construct(storedTimers, storedRuntimes, clock)
                 after  == construct(full.storedTimers, full.storedRuntimes, clock)
             IN  getAllTimers(timers', storedRuntimes', clock')
                    \in {Shown(Engine), Shown(before), Shown(full), Shown(after)}
      ]_vars

\* C23: pauseTimer(id) and deleteTimer(id) return with the schedule of the
\* timer cancelled and no active runtime record; a tick runs only for a
\* timer that owns a schedule, a schedule exists only over an active
\* runtime record, and only startTimer makes a runtime record active.  So
\* after a pause or a delete no tick notifies for the timer or changes it
\* until it is started again.
C23_NoTickAfterPauseOrDelete ==
    /\ [][\A id \in DOMAIN timers :
             (Does("pauseTimer", id) \/ Does("deleteTimer", id))
             => /\ lastOp'.result = "ok"
                /\ id \notin intervals'
                /\ ~ActiveRuntime(storedRuntimes', id)
         ]_vars
    /\ [](\A id \in intervals :
             id \in DOMAIN timers /\ ActiveRuntime(storedRuntimes, id))
    /\ [][\A id \in DOMAIN timers \cup DOMAIN timers' :
             /\ (~ActiveRuntime(storedRuntimes, id)
                    /\ ActiveRuntime(storedRuntimes', id))
                => (Does("startTimer", id) /\ lastOp'.result = "ok")
             /\ Does("tick", id) => id \in intervals
             /\ id \notin intervals
                => \A i \in DOMAIN effects' :
                      (effects'[i].kind = "notify"
                         /\ effects'[i].method = "onTimerUpdated"
                         /\ effects'[i].data.id = id)
                      => lastOp'.op # "tick"
         ]_vars

C23_Witness ==
    \E id \in DOMAIN timers :
        /\ Did("pauseTimer", id)
        /\ hist[id].s # 0
        /\ hist[id].p = clock
        /\ clock > hist[id].s
        /\ id \notin intervals
        /\ ~timers[id].isRunning

\* C24: in every reachable state a timer with isRunning = true owns a tick
\* schedule and a timer with isRunning = false owns none.
C24_RunningIffScheduled ==
    \A id \in DOMAIN timers : timers[id].isRunning <=> id \in intervals

\* C25: the marker of a countdown timer is cleared whenever the timer goes
\* back to Idle or Running: after a startTimer or a reset that leaves the
\* timer unfinished the marker is absent.  So in a later run the first tick
\* that observes remaining = 0 finishes the timer, and the run has then had
\* exactly one playAlert.
C25_MarkerNeverSuppressesFinish ==
    /\ [][\A id \in DOMAIN timers :
             (/\ Does("startTimer", id) \/ Does("resetCountdownTimer", id)
              /\ timers[id].type = "countdown"
              /\ lastOp'.result = "ok"
              /\ ~timers'[id].isFinished)
             => id \notin finishedTimers'
         ]_vars
    /\ [][\A id \in DOMAIN timers :
             (/\ Does("tick", id)
              /\ timers[id].type = "countdown"
              /\ timers[id].isRunning
              /\ hist[id].s # 0
              /\ ~hist[id].seenZero
              /\ getTimer(id).remainingSeconds = 0)
             => /\ timers'[id].isFinished
                /\ AddPlays(hist[id].plays, effects', id) = 1
         ]_vars

\* C26: a countdown timer that becomes finished is unacknowledged right
\* after the step that finished it.
C26_FinishLandsUnacknowledged ==
    [][\A id \in DOMAIN timers \cap DOMAIN timers' :
          (/\ timers[id].type = "countdown"
           /\ ~timers[id].isFinished
           /\ timers'[id].isFinished)
          => ~timers'[id].isAcknowledged
      ]_vars

\* The store writes among the calls effs.
WritesOf(effs) == {i \in DOMAIN effs : effs[i].kind \in StoreWrites}

\* C27: in every step that writes to the store, each observer notification
\* comes right after a saveTimers call whose collection holds the state the
\* notification carries (or, for onTimerDeleted, no longer holds the id), no
\* store write follows the last notification, and the persisted collection
\* at the end is the in-memory one.
C27_NotifyAfterPersist ==
    [][(WritesOf(effects') # {} /\ lastOp'.op # "construct")
          => /\ storedTimers' = timers'
             /\ \A i \in DOMAIN effects' :
                   effects'[i].kind = "notify"
                   => /\ i > 1
                      /\ effects'[i - 1].kind = "saveTimers"
                      /\ IF effects'[i].method = "onTimerDeleted"
                         THEN effects'[i].data \notin DOMAIN effects'[i - 1].timers
                         ELSE /\ effects'[i].data.id \in DOMAIN effects'[i - 1].timers
                              /\ effects'[i - 1].timers[effects'[i].data.id]
                                    = effects'[i].data
             /\ effects'[Len(effects')].kind = "notify"
             /\ effects'[Len(effects') - 1].timers = timers'
      ]_vars

C27_Witness ==
    \E id \in DOMAIN timers :
        /\ Did("resetCountdownTimer", id)
        /\ lastOp.result = "ok"
        /\ Cardinality(Notified(effects, "onTimerUpdated")) = 2
        /\ Cardinality(WritesOf(effects)) = 4
        /\ storedTimers = timers

\* The callbacks among the calls effs.
DeliveriesOf(effs) == {i \in DOMAIN effs : effs[i].kind = "deliver"}

\* The notifications among the calls effs.
NotificationsOf(effs) == {i \in DOMAIN effs : effs[i].kind = "notify"}

\* C28: every create, update and delete notification of a step is delivered
\* within the step, once to each observer subscribed at that moment, in the
\* order in which they subscribed, and to nobody else; an observer is
\* subscribed at most once however often it subscribes, and is not
\* subscribed after it has unsubscribed.
C28_EachObserverOnceInOrder ==
    /\ [](\A i, j \in DOMAIN observers : observers[i] = observers[j] => i = j)
    /\ [][/\ \A i \in NotificationsOf(effects') :
                \A k \in DOMAIN observers :
                    /\ i + k \in DOMAIN effects'
                    /\ effects'[i + k]
                          = [kind |-> "deliver", observer |-> observers[k],
                             method |-> effects'[i].method,
                             data |-> effects'[i].data]
          /\ Cardinality(DeliveriesOf(effects'))
                = Len(observers) * Cardinality(NotificationsOf(effects'))
          /\ lastOp'.op = "subscribe"
                => \/ observers' = observers
                   \/ /\ Len(observers') = Len(observers) + 1
                      /\ SubSeq(observers', 1, Len(observers)) = observers
          /\ lastOp'.op = "unsubscribe"
                => \E o \in ObserverIds :
                      observers' = SelectSeq(observers, LAMBDA x : x # o)
          /\ lastOp'.op \notin {"subscribe", "unsubscribe", "construct"}
                => observers' = observers
         ]_vars

C28_Witness ==
    \E id \in DOMAIN timers :
        /\ Did("startTimer", id)
        /\ observers = <<"aggregator", "renderer">>
        /\ \E i \in NotificationsOf(effects) :
              /\ i + 2 = Len(effects)
              /\ effects[i + 1].kind = "deliver"
              /\ effects[i + 1].observer = "aggregator"
              /\ effects[i + 2].kind = "deliver"
              /\ effects[i + 2].observer = "renderer"

\* The step being taken ends as the engine E ends.
EndsAs(E) ==
    /\ timers' = E.timers
    /\ intervals' = E.intervals
    /\ finishedTimers' = E.finishedTimers
    /\ storedTimers' = E.storedTimers
    /\ storedRuntimes' = E.storedRuntimes
    /\ effects' = E.effects

\* C29: stopAlert and acknowledgeTimer are one operation: on every id with
\* a countdown timer the two yield the same engine, store, audio calls and
\* notifications, so every stopAlert step ends as acknowledgeTimer would
\* have ended from the same state and the other way round, and on every
\* other id both throw the same error and change nothing.
C29_StopAlertIsAcknowledge ==
    /\ [](\A id \in CallIds :
             isCountdownTimer(timers, id)
             => stopAlert(Engine, id) = acknowledgeTimer(Engine, id))
    /\ [][\A id \in CallIds :
            /\ Does("stopAlert", id)
               => IF isCountdownTimer(timers, id)
                  THEN /\ lastOp'.result = "ok"
                       /\ EndsAs(acknowledgeTimer(Engine, id))
                  ELSE /\ lastOp'.result = "error"
                       /\ lastOp'.message = errorMessage("acknowledgeTimer")
                       /\ effects' = <<>>
                       /\ UNCHANGED <<timers, intervals, finishedTimers,
                                      storedTimers, storedRuntimes>>
            /\ Does("acknowledgeTimer", id)
               => IF isCountdownTimer(timers, id)
                  THEN /\ lastOp'.result = "ok"
                       /\ EndsAs(stopAlert(Engine, id))
                  ELSE /\ lastOp'.result = "error"
                       /\ lastOp'.message = errorMessage("stopAlert")
                       /\ effects' = <<>>
                       /\ UNCHANGED <<timers, intervals, finishedTimers,
                                      storedTimers, storedRuntimes>>
         ]_vars

C29_Witness ==
    \E id \in DOMAIN timers :
        /\ Did("stopAlert", id)
        /\ lastOp.result = "ok"
        /\ timers[id].isFinished
        /\ Len(observers) = 2
        /\ Cardinality(DeliveriesOf(effects)) = 2

\* The calls of effs that show the acknowledged timer outside the engine's
\* memory: the persist and the observers' callbacks.
ShowsAcknowledged(effs) ==
    {i \in DOMAIN effs :
        \/ effs[i].kind = "saveTimers"
        \/ effs[i].kind \in {"notify", "deliver"} /\ effs[i].data.isAcknowledged}

\* C30: in a successful acknowledgeTimer or stopAlert the alert is
\* cancelled first: cancelAlert is the first call of the step, before the
\* acknowledged timer is stored and before any observer callback, and each
\* callback is handed a timer with isAcknowledged set.
C30_CancelBeforeAcknowledged ==
    [][\A id \in DOMAIN timers :
          (/\ Does("acknowledgeTimer", id) \/ Does("stopAlert", id)
           /\ lastOp'.result = "ok")
          => /\ ShowsAcknowledged(effects') # {}
             /\ \A i \in ShowsAcknowledged(effects') :
                   \E c \in 1 .. i - 1 : effects'[c].kind = "cancelAlert"
             /\ \A i \in DeliveriesOf(effects') : i \in ShowsAcknowledged(effects')
             /\ effects'[1].kind = "cancelAlert"
      ]_vars

C30_Witness ==
    \E id \in DOMAIN timers :
        /\ Did("acknowledgeTimer", id)
        /\ lastOp.result = "ok"
        /\ timers[id].isFinished
        /\ observers # <<>>
        /\ effects[1].kind = "cancelAlert"
        /\ effects[Len(effects)].kind = "deliver"
        /\ effects[Len(effects)].data.isAcknowledged

\* The live value of timer id in the current state, from its runtime record.
LiveValue(id) ==
    LET t  == timers[id]
        rt == storedRuntimes[id]
        seconds == (clock - rt.startedAt) \div MsPerSecond
    IN  IF t.type = "countdown"
        THEN LET base == IF "baseRemainingSeconds" \in DOMAIN rt
                         THEN rt.baseRemainingSeconds ELSE t.remainingSeconds
             IN  IF base - seconds > 0 THEN base - seconds ELSE 0
        ELSE LET base == IF "baseElapsedSeconds" \in DOMAIN rt
                         THEN rt.baseElapsedSeconds ELSE t.elapsedSeconds
             IN  base + seconds

\* What a query returns for timer id in the current state.
Answer(id) ==
    IF id \in DOMAIN storedRuntimes /\ storedRuntimes[id].startedAt # 0
    THEN IF timers[id].type = "countdown"
         THEN [timers[id] EXCEPT !.remainingSeconds = LiveValue(id)]
         ELSE [timers[id] EXCEPT !.elapsedSeconds = LiveValue(id)]
    ELSE timers[id]

\* C31: getTimer(id) returns, for a timer with an active runtime record, the
\* timer with remaining = max(0, base - floor((now - startedAt)/1000)) or
\* elapsed = base + floor((now - startedAt)/1000), and for a timer without
\* one the stored timer as it is; getAllTimers returns exactly these values,
\* one for each timer.
C31_QueriesReturnLiveProjection ==
    [][/\ \A id \in DOMAIN timers :
             Does("getTimer", id) => lastOp'.value = Answer(id)
       /\ lastOp'.op = "getAllTimers"
             => lastOp'.value = {Answer(id) : id \in DOMAIN timers}
      ]_vars

C31_Witness ==
    \E id \in DOMAIN timers :
        /\ Did("getTimer", id)
        /\ timers[id].type = "countdown"
        /\ ActiveRuntime(storedRuntimes, id)
        /\ timers[id].remainingSeconds = 2
        /\ lastOp.value.remainingSeconds = 1

\* C34: getTimer and getAllTimers change no timer, runtime record, schedule,
\* marker or persisted content, write nothing to the store, call no audio
\* operation and notify no observer.
C34_QueriesAreReadOnly ==
    [][lastOp'.op \in {"getTimer", "getAllTimers"}
          => /\ UNCHANGED <<timers, intervals, finishedTimers, nextId,
                            storedTimers, storedRuntimes, observers>>
             /\ \A i \in DOMAIN effects' : effects'[i].kind = "getTimerRuntime"
      ]_vars

C34_Witness ==
    \E id \in DOMAIN timers :
        /\ lastOp.op = "getAllTimers"
        /\ ActiveRuntime(storedRuntimes, id)
        /\ Value(timers[id]) # Value(getTimer(id))
        /\ effects = <<[kind |-> "getTimerRuntime", id |-> id]>>

\* C33: in every reachable state an active runtime record (startedAt > 0)
\* belongs to a timer that exists in the engine with isRunning = true and
\* isFinished = false.
C33_ActiveRuntimeOnlyForRunning ==
    \A id \in DOMAIN storedRuntimes :
        storedRuntimes[id].startedAt > 0
        => /\ id \in DOMAIN timers
           /\ timers[id].isRunning
           /\ ~timers[id].isFinished

C33_Witness ==
    \E id \in DOMAIN timers :
        /\ Did("pauseTimer", id)
        /\ id \in DOMAIN storedRuntimes
        /\ storedRuntimes[id].startedAt = 0
        /\ ~timers[id].isRunning

\* The calls of effs that show timer id stopped at zero and not finished: a
\* persisted snapshot or a notification.
ShowsStoppedAtZeroUnfinished(effs, id) ==
    {i \in DOMAIN effs :
        LET shown == IF effs[i].kind = "saveTimers" /\ id \in DOMAIN effs[i].timers
                     THEN {effs[i].timers[id]}
                     ELSE IF effs[i].kind \in {"notify", "deliver"}
                             /\ effs[i].method = "onTimerUpdated"
                          THEN {effs[i].data}
                          ELSE {}
        IN  \E t \in shown :
               /\ t.type = "countdown"
               /\ ~t.isRunning
               /\ t.remainingSeconds = 0
               /\ ~t.isFinished}

\* C37: in a tick that handles a completion (the timer is finished after
\* it), no persisted snapshot and no notification shows the timer stopped
\* at remainingSeconds = 0 with isFinished = false, and playAlert comes
\* after the store write that holds the finished timer.
C37_FinishIsAtomic ==
    [][\A id \in DOMAIN timers :
          (/\ Does("tick", id)
           /\ ~timers[id].isFinished
           /\ timers'[id].isFinished)
          => /\ ShowsStoppedAtZeroUnfinished(effects', id) = {}
             /\ \A i \in DOMAIN effects' :
                   effects'[i].kind = "playAlert"
                   => \E j \in 1 .. i - 1 :
                         /\ effects'[j].kind = "saveTimers"
                         /\ effects'[j].timers[id].isFinished
      ]_vars

\* The two create operations.
CreateOps == {"createCountdownTimer", "createCountupTimer"}

\* C32: every timer of the engine, loaded ones included, has an id below
\* nextId; a create returns nextId, which is above the id of every timer
\* there is, adds the timer under that id without touching another timer
\* and raises nextId; nextId never goes down within a session, so the id is
\* also above every id created earlier and deleted since.
C32_CreatedIdsAreFresh ==
    /\ [](\A id \in DOMAIN timers : id < nextId)
    /\ [][/\ (lastOp'.op \in CreateOps /\ lastOp'.result = "ok")
                => /\ lastOp'.id = nextId
                   /\ \A id \in DOMAIN timers : id < lastOp'.id
                   /\ nextId' = lastOp'.id + 1
                   /\ DOMAIN timers' = DOMAIN timers \cup {lastOp'.id}
                   /\ timers'[lastOp'.id].id = lastOp'.id
                   /\ \A id \in DOMAIN timers : timers'[id] = timers[id]
          /\ lastOp'.op = "construct"
                => /\ DOMAIN timers' = DOMAIN storedTimers
                   /\ \A id \in DOMAIN storedTimers : id < nextId'
          /\ lastOp'.op # "construct" => nextId' >= nextId
         ]_vars

C32_Witness ==
    \E a, b \in DOMAIN timers :
        /\ Did("createCountupTimer", b)
        /\ a < b
        /\ b = clock
        /\ clock > MsPerSecond

\* The operations on one timer, the tick included.
TimerOps == IdOps \cup {"deleteTimer", "tick"}

\* C35: an operation or a tick on timer a, and a create, leave every other
\* timer b as it is: its fields, its persisted fields, its runtime record,
\* its schedule, its marker and so its projected value.
C35_OtherTimersUntouched ==
    [][lastOp'.op \in TimerOps \cup CreateOps
          => \A b \in DOMAIN timers \ {lastOp'.id} :
                /\ b \in DOMAIN timers'
                /\ timers'[b] = timers[b]
                /\ b \in DOMAIN storedTimers' /\ storedTimers'[b] = timers[b]
                /\ b \in DOMAIN storedRuntimes' <=> b \in DOMAIN storedRuntimes
                /\ b \in DOMAIN storedRuntimes
                      => storedRuntimes'[b] = storedRuntimes[b]
                /\ b \in intervals' <=> b \in intervals
                /\ b \in finishedTimers' <=> b \in finishedTimers
                /\ getComputedTimer(timers', storedRuntimes', b, clock')
                      = getComputedTimer(timers, storedRuntimes, b, clock)
      ]_vars

C35_Witness ==
    \E a, b \in DOMAIN timers :
        /\ a # b
        /\ Did("tick", a)
        /\ timers[a].isFinished
        /\ timers[b].isRunning
        /\ b \in intervals
        /\ ActiveRuntime(storedRuntimes, b)
        /\ getTimer(b).elapsedSeconds = 1

\* The alerts that are active: one is being spoken or has a repeat scheduled.
ActiveAlerts(A) == {x.seq : x \in A.speaking \cup A.pending}

\* C36: at most one alert is active at any time; an accepted playAlert
\* leaves its own alert as the only active one, and a cancelAlert made by
\* acknowledgeTimer, stopAlert or deleteTimer leaves none, whichever timers
\* the active alerts belong to.
C36_OneAlertAndGlobalCancel ==
    /\ [](Cardinality(ActiveAlerts(audio)) <= 1)
    /\ [][/\ (lastOp'.op = "playAlert" /\ lastOp'.result = "ok")
                => ActiveAlerts(audio') = {audio.nextSeq}
          /\ lastOp'.op = "cancelAlert" => ActiveAlerts(audio') = {}
         ]_vars

\* C38: after a cancelAlert called by the engine has returned, nothing of an
\* alert begun before it is spoken or scheduled, whichever closing events
\* the browser delivers afterwards.
C38_CancelledAlertStaysSilent ==
    \A x \in audio.speaking \cup audio.pending : x.seq >= audio.cancelledBelow

C40_CreatedDashboardIdIsFresh ==
    [][lastOp'.op = "createDashboard"
          => /\ lastOp'.id \notin DOMAIN dashboards.dashboards
             /\ DOMAIN dashboards'.dashboards
                   = DOMAIN dashboards.dashboards \cup {lastOp'.id}
             /\ \A id \in DOMAIN dashboards.dashboards :
                   dashboards'.dashboards[id] = dashboards.dashboards[id]
             /\ Len(dashboards'.stored) = Len(dashboards.stored) + 1
      ]_vars

====
